---------------------------- MODULE Spec2Model ----------------------------
(***************************************************************************)
(* A model of cpp-slice: the header-prefixed heap allocations of array.h,  *)
(* the owning buffer Array<T, Count> (generic and text specialisation) and *)
(* the reference counted SharedArray<T> of sharedarray.h.                  *)
(*                                                                         *)
(* Objects live in fixed storage slots.  Array slots 1 and 2 hold          *)
(* Array<int, CountA> and Array<int> (Count = 0, the type claim() returns),*)
(* slots 3 and 4 hold Array<char, CountT> and Array<char> (text).          *)
(* Shared slots hold SharedArray<int>.                                     *)
(*                                                                         *)
(* A pointer is Null, Local (the address of the object's own inline        *)
(* storage) or the id of a heap block.  The allocator hands out the lowest *)
(* free block; a block released twice is marked and never handed out again.*)
(***************************************************************************)
EXTENDS Integers, Sequences, FiniteSets, TLC

VARIABLES heap, arr, sh, crowd, res, hung, ub

vars == <<heap, arr, sh, crowd, res, hung, ub>>

-----------------------------------------------------------------------------
(* Bounds of the model *)

\* heap blocks that can be allocated at the same time
MaxAllocs == 3
\* longest element sequence handed to a constructor, append or resize
MaxLen == 3
\* inline capacity of the Array<int, CountA> in slot 1
CountA == 2
\* inline capacity of the Array<char, CountT> in slot 3
CountT == 4
\* bits of a size_t: lengths are kept modulo 2 ^ SizeBits
SizeBits == 16
\* the longest view that is tokenised
MaxTokLen == 6
\* the largest code point transcoded
MaxCodePoint == 1114111
\* the longest text that is parsed
MaxText == 4
\* the longest text, in code points, that is URL-encoded
MaxUrl == 3
\* the longest text, in code points, whose characters are taken one by one
MaxChars == 2

(* Program constants *)

\* width of ArrayHeader::rc
RcBits == 21
\* template <typename T, size_t Count = 0, ...> struct Array
DefaultCount == 0
\* enum { InitialAlloc = Count > 8 ? Count * 2 : 16 }
MinInitialAlloc == 16

Null == 0
Local == 0 - 1
\* a slot of a buffer that was never written
Uninit == 0 - 1

IntArrays == {1, 2}
TextArrays == {3, 4}
ArrIds == IntArrays \cup TextArrays
ShIds == {1, 2, 3}

\* the values the int family stores
IntVals == {1, 2}

CountOf(i) ==
    CASE i = 1 -> CountA
      [] i = 2 -> DefaultCount
      [] i = 3 -> CountT
      [] OTHER -> DefaultCount

IsText(i) == i \in TextArrays

\* sizeof(T): int is 4 bytes, char is 1
SizeOf(i) == IF IsText(i) THEN 1 ELSE 4

Pow2(n) == 2 ^ n

Max(x, y) == IF x >= y THEN x ELSE y

-----------------------------------------------------------------------------
(* Raw memory: a buffer is the sequence of its slots written so far *)

At(buf, k) == IF k >= 1 /\ k <= Len(buf) THEN buf[k] ELSE Uninit

\* store vals at the 0-based offsets start .. start + Len(vals) - 1
PokeSeq(buf, start, vals) ==
    [k \in 1..Max(Len(buf), start + Len(vals)) |->
        IF k > start /\ k <= start + Len(vals) THEN vals[k - start] ELSE At(buf, k)]

Take(buf, n) == [k \in 1..n |-> At(buf, k)]

Zeros(n) == [k \in 1..n |-> 0]

-----------------------------------------------------------------------------
(* detail::ArrayHeader and the allocation functions *)

NewHeader(bytes) == [state |-> "live", rc |-> 1, bytes |-> bytes, mem |-> <<>>]
FreeBlock == [state |-> "free", rc |-> 0, bytes |-> 0, mem |-> <<>>]
Released == [state |-> "released", rc |-> 0, bytes |-> 0, mem |-> <<>>]
TwiceFreed == [state |-> "twice", rc |-> 0, bytes |-> 0, mem |-> <<>>]

Blocks == 1..MaxAllocs

FreeIds(h) == {p \in Blocks : h[p].state = "free"}

\* the block SLICE_ALLOC returns; Null when the heap is exhausted
NewId(h) ==
    IF FreeIds(h) = {} THEN Null
    ELSE CHOOSE p \in FreeIds(h) : \A q \in FreeIds(h) : p <= q

\* alloc_array, when a block is free
alloc_array(h, bytes) == [h EXCEPT ![NewId(h)] = NewHeader(bytes)]

\* free_array: runs the header's release callback.  The allocator does not
\* hand the block out again before the call that released it has ended.
free_array(h, p) ==
    [h EXCEPT ![p] = IF @.state = "live" THEN Released ELSE TwiceFreed]

\* the heap once a call has ended: the blocks it released are free
Settle(h) == [p \in Blocks |-> IF h[p].state = "released" THEN FreeBlock ELSE h[p]]

-----------------------------------------------------------------------------
(* Array<T, Count, false> *)

EmptyObj == [live |-> TRUE, ptr |-> Null, length |-> 0, local |-> <<>>]
DeadObj == [live |-> FALSE, ptr |-> Null, length |-> 0, local |-> <<>>]

\* LocalBuffer<Count>::ptr(): LocalBuffer<0> has no storage
LocalPtr(i) == IF CountOf(i) = 0 THEN Null ELSE Local

\* LocalBuffer<Count>::is_allocated
is_allocated(i, a) == a.ptr # Null /\ a.ptr # Local

\* the memory the pointer of a designates
Buf(a, h) ==
    IF a.ptr = Local THEN a.local
    ELSE IF a.ptr = Null THEN <<>>
    ELSE h[a.ptr].mem

\* the elements [0, length)
Elems(a, h) == Take(Buf(a, h), a.length)

\* the outcome of a call: stop is "hung" when the call never returns, "oom"
\* when the allocator had no block left and "ub" when it wrote outside the
\* storage its pointer designates
Ret(a, h) == [a |-> a, h |-> h, stop |-> ""]

\* the elements the storage behind the pointer has room for
Capacity(i, a, h) ==
    IF a.ptr = Local THEN CountOf(i)
    ELSE IF a.ptr = Null THEN 0
    ELSE h[a.ptr].bytes \div SizeOf(i)

\* Array::get_buffer().length
get_buffer(i, a, h) ==
    IF is_allocated(i, a) THEN h[a.ptr].bytes \div SizeOf(i) ELSE CountOf(i)

\* ptr[start ..] = vals (memcpy or placement new); nothing checks that the
\* slots lie inside the storage
Store(i, a, h, start, vals) ==
    LET w == IF a.ptr = Local
             THEN Ret([a EXCEPT !.local = PokeSeq(@, start, vals)], h)
             ELSE IF a.ptr = Null THEN Ret(a, h)
             ELSE Ret(a, [h EXCEPT ![a.ptr].mem = PokeSeq(@, start, vals)])
    IN  IF Len(vals) > 0 /\ start + Len(vals) > Capacity(i, a, h)
        THEN [w EXCEPT !.stop = "ub"]
        ELSE w

RECURSIVE DoubleUntil(_, _)
\* do bytes *= 2; while (count > bytes);
DoubleUntil(bytes, count) ==
    IF count > bytes * 2 THEN DoubleUntil(bytes * 2, count) ELSE bytes * 2

InitialAlloc(i) == IF CountOf(i) > 8 THEN CountOf(i) * 2 ELSE MinInitialAlloc

\* Array::reserve.  With a header of 0 bytes the doubling loop never ends.
reserve(i, a, h, count) ==
    LET hasAlloc == is_allocated(i, a)
        need == count * SizeOf(i)
    IN  IF count <= CountOf(i)
        THEN Ret(IF hasAlloc THEN a ELSE [a EXCEPT !.ptr = LocalPtr(i)], h)
        ELSE IF hasAlloc /\ need <= h[a.ptr].bytes
        THEN Ret(a, h)
        ELSE IF hasAlloc /\ h[a.ptr].bytes = 0
        THEN [a |-> a, h |-> h, stop |-> "hung"]
        ELSE IF NewId(h) = Null
        THEN [a |-> a, h |-> h, stop |-> "oom"]
        ELSE LET bytes == IF hasAlloc THEN DoubleUntil(h[a.ptr].bytes, need)
                          ELSE IF count <= InitialAlloc(i)
                               THEN InitialAlloc(i) * SizeOf(i)
                               ELSE need
                 h1 == alloc_array(h, bytes)
                 mem == NewId(h)
                 h2 == [h1 EXCEPT ![mem].mem = Elems(a, h)]
                 h3 == IF hasAlloc THEN free_array(h2, a.ptr) ELSE h2
             IN  Ret([a EXCEPT !.ptr = mem, !.local = <<>>], h3)

\* a clear that goes back to the inline storage
clearToLocal(a) == [a EXCEPT !.length = 0, !.ptr = IF @ = Null THEN Null ELSE Local]

\* Array::clear
clear(a) == [a EXCEPT !.length = 0]

\* Array::~Array: the storage is left as the destructor leaves it
destroy(i, a, h) ==
    IF a.ptr = Null THEN Ret(a, h)
    ELSE IF is_allocated(i, clear(a))
         THEN Ret([clear(a) EXCEPT !.ptr = Null], free_array(h, a.ptr))
         ELSE Ret(clear(a), h)

\* set length and copy vals to the front, after a reserve that returned
Fill(i, r, vals) ==
    IF r.stop # "" THEN r
    ELSE Store(i, [r.a EXCEPT !.length = Len(vals)], r.h, 0, vals)

\* Array::Array(U *ptr, size_t length)
ArrayFromPtr(i, h, vals) == Fill(i, reserve(i, EmptyObj, h, Len(vals)), vals)

\* a move constructor that takes the block and leaves it with its source too
ArrayMoveKeep(i, j, b, h) ==
    [a |-> [EmptyObj EXCEPT !.ptr = IF b.ptr = Local THEN Null ELSE b.ptr,
                            !.length = IF b.ptr = Local THEN 0 ELSE b.length],
     b |-> b, h |-> h, stop |-> ""]

\* Array::Array(Array<U, N, S> &&rval): b is the source, in slot j
ArrayMoveCtor(i, j, b, h) ==
    IF is_allocated(j, b)
    THEN [a |-> [EmptyObj EXCEPT !.ptr = b.ptr, !.length = b.length],
          b |-> [b EXCEPT !.ptr = Null, !.length = 0], h |-> h, stop |-> ""]
    ELSE IF b.length > 0
    THEN LET r == IF b.length <= CountOf(i)
                  THEN Ret([EmptyObj EXCEPT !.ptr = Local], h)
                  ELSE reserve(i, EmptyObj, h, b.length)
             s == Fill(i, r, Elems(b, h))
         IN  [a |-> s.a, b |-> b, h |-> s.h, stop |-> s.stop]
    ELSE [a |-> EmptyObj, b |-> b, h |-> h, stop |-> ""]


\* Array::Array(Alloc_T, size_t count) / Array::alloc
alloc(i, a, h, count) == Fill(i, reserve(i, clear(a), h, count), Zeros(count))

\* Array::Array(Concat_T, Items&&...): always a fresh, exactly sized allocation
ArrayConcat(i, h, vals) ==
    IF NewId(h) = Null THEN [a |-> EmptyObj, h |-> h, stop |-> "oom"]
    ELSE Store(i, [EmptyObj EXCEPT !.ptr = NewId(h), !.length = Len(vals)],
               alloc_array(h, Len(vals) * SizeOf(i)), 0, vals)

\* Array::resize
resize(i, a, h, count) ==
    IF count < a.length THEN Ret([a EXCEPT !.length = count], h)
    ELSE IF a.length < count
    THEN LET r == reserve(i, a, h, count)
         IN  IF r.stop # "" THEN r
             ELSE Store(i, [r.a EXCEPT !.length = count], r.h, a.length,
                        Zeros(count - a.length))
    ELSE Ret(a, h)

\* Array::operator=(const Array &) and operator=(Slice): destroy, then
\* construct in place from the source's elements
ArrayAssign(i, a, h, vals) ==
    LET d == destroy(i, a, h) IN ArrayFromPtr(i, d.h, vals)

\* Array::operator=(Array<U, N, S> &&rval), this != &rval
ArrayAssignMove(i, a, j, b, h) ==
    LET d == destroy(i, a, h) IN ArrayMoveCtor(i, j, b, d.h)

\* a temporary Array of the type of slot j: Array(ptr, length) when how is
\* "ptr", Array(Concat, ...) when it is "concat"
MakeTemp(j, h, how, vals) ==
    IF how = "ptr" THEN ArrayFromPtr(j, h, vals) ELSE ArrayConcat(j, h, vals)

\* Array a(std::move(temp)), then the temporary t (of the type of slot j) dies
MoveFromTemp(i, j, t) ==
    IF t.stop # "" THEN t
    ELSE LET m == ArrayMoveCtor(i, j, t.a, t.h)
         IN  IF m.stop # "" THEN [a |-> m.a, h |-> m.h, stop |-> m.stop]
             ELSE [a |-> m.a, h |-> destroy(j, m.b, m.h).h, stop |-> ""]

\* a = std::move(temp): the temporary t is built from the heap h before the
\* assignment destroys a
AssignMoveFromTemp(i, a, j, t) ==
    IF t.stop # "" THEN t
    ELSE MoveFromTemp(i, j, [t EXCEPT !.h = destroy(i, a, t.h).h])

\* Array::append
append(i, a, h, vals) ==
    LET len == a.length + Len(vals)
        r == reserve(i, a, h, len)
    IN  IF r.stop # "" THEN r
        ELSE Store(i, [r.a EXCEPT !.length = len], r.h, a.length, vals)

\* Array::push_back / emplace_back
push_back(i, a, h, v) ==
    LET r == reserve(i, a, h, a.length + 1)
    IN  IF r.stop # "" THEN r
        ELSE Store(i, [r.a EXCEPT !.length = a.length + 1], r.h, a.length, <<v>>)

\* size_t arithmetic wraps
SizeT(n) == n % Pow2(SizeBits)

\* Array::pop_back(): the value returned is the former last element
pop_back(a) == [a EXCEPT !.length = SizeT(a.length - 1)]

\* the assertion of pop_back(size_t n), as the source has it
PopBackAssert(a, n) == n >= a.length

\* Array::pop_back(size_t n), past its assertion: the loop destroys the
\* elements from length - n on (none when that wraps), then length -= n
pop_back_n(a, n) == [a EXCEPT !.length = SizeT(a.length - n)]

\* a remove that drops the last element whatever the index
removeLast(i, a, h, k) == Ret([a EXCEPT !.length = a.length - 1], h)

\* Array::remove(size_t i): shifts ptr[k+1 ..] down; the old last slot keeps
\* its bytes
remove(i, a, h, k) ==
    LET n == a.length - 1
        b == Buf(a, h)
    IN  Store(i, [a EXCEPT !.length = n], h, k, [x \in 1..(n - k) |-> At(b, k + 1 + x)])

\* Array::remove_swap_last(size_t i)
remove_swap_last(i, a, h, k) ==
    LET b == Buf(a, h)
        r == IF k < a.length - 1 THEN Store(i, a, h, k, <<At(b, a.length)>>) ELSE Ret(a, h)
    IN  Ret([r.a EXCEPT !.length = a.length - 1], r.h)

-----------------------------------------------------------------------------
(* Text: code units are numbers; a char unit is a byte *)

\* detail::utf_encode(char32_t c, char *utf8): the bytes written
utf_encode(c) ==
    IF c < 128 THEN <<c>>
    ELSE IF c < 2048 THEN <<192 + ((c \div 64) % 32), 128 + (c % 64)>>
    ELSE IF c < 65536
    THEN <<224 + ((c \div 4096) % 16), 128 + ((c \div 64) % 64), 128 + (c % 64)>>
    ELSE <<240 + ((c \div 262144) % 8), 128 + ((c \div 4096) % 64),
           128 + ((c \div 64) % 64), 128 + (c % 64)>>

\* h < 10 ? '0' + h : 'A' + h - 10
HexDigit(h) == IF h < 10 THEN 48 + h ELSE 55 + h

\* the characters detail::url_encode copies as they are
Unreserved(c) ==
    \/ c >= 97 /\ c <= 122
    \/ c >= 65 /\ c <= 90
    \/ c >= 48 /\ c <= 57
    \/ c \in {95, 45, 46, 126}

\* what detail::url_encode writes for one byte
UrlByte(c) ==
    IF c = 32 THEN <<43>>
    ELSE IF Unreserved(c) THEN <<c>>
    ELSE <<37, HexDigit(c \div 16), HexDigit(c % 16)>>

RECURSIVE UrlBytes(_)
UrlBytes(bytes) ==
    IF bytes = <<>> THEN <<>> ELSE UrlByte(Head(bytes)) \o UrlBytes(Tail(bytes))

RECURSIVE url_encode(_, _)
\* detail::url_encode(buffer, text): the units written to buffer.  A source
\* of char units is taken byte by byte, one of char32_t units (wide) goes
\* through utf_encode first.
url_encode(text, wide) ==
    IF text = <<>> THEN <<>>
    ELSE UrlBytes(IF wide THEN utf_encode(Head(text)) ELSE <<Head(text)>>)
             \o url_encode(Tail(text), wide)

\* Array<C, Count, true>::Array(U *ptr, size_t length), U and C of one width
TextFromPtr(i, h, text) ==
    IF Len(text) = 0 THEN Ret(EmptyObj, h)
    ELSE LET r == reserve(i, EmptyObj, h, Len(text) + 1)
         IN  IF r.stop # "" THEN r
             ELSE Store(i, [r.a EXCEPT !.length = Len(text)], r.h, 0, text \o <<0>>)

\* Array<C, Count, true>::operator=(Slice) and operator=(const Array &):
\* clear(), which keeps the storage, then construction in place, which
\* starts from a null pointer.  Nothing of the cleared object survives; a
\* block it holds is not released.
TextAssign(i, a, h, text) ==
    LET cleared == clear(a) IN TextFromPtr(i, h, text)

\* Array<C, Count, true>::Array(Array<U, N, S> &&rval), U and C of one width
TextMoveCtor(i, j, b, h) ==
    IF is_allocated(j, b)
    THEN [a |-> [EmptyObj EXCEPT !.ptr = b.ptr, !.length = b.length],
          b |-> [b EXCEPT !.ptr = Null, !.length = 0], h |-> h, stop |-> ""]
    ELSE LET r == TextFromPtr(i, h, Elems(b, h))
         IN  [a |-> r.a, b |-> b, h |-> r.h, stop |-> r.stop]

\* a text Array a(std::move(temp)) or a = std::move(temp) (clear(), then
\* the move constructor in place); the temporary t, of the type of slot j,
\* dies afterwards
TextMoveFromTemp(i, j, t) ==
    IF t.stop # "" THEN t
    ELSE LET m == TextMoveCtor(i, j, t.a, t.h)
         IN  IF m.stop # "" THEN [a |-> m.a, h |-> m.h, stop |-> m.stop]
             ELSE [a |-> m.a, h |-> destroy(j, m.b, m.h).h, stop |-> ""]

\* Array<C, Count, true>::append(items...)
text_append(i, a, h, text) ==
    LET len == a.length + Len(text)
        r == reserve(i, a, h, len + 1)
    IN  IF r.stop # "" THEN r
        ELSE Store(i, [r.a EXCEPT !.length = len], r.h, a.length, text \o <<0>>)

\* Array<C, Count, true>::url_encode(Slice<U, S> text)
text_url_encode(i, a, h, text, wide) ==
    LET r == reserve(i, a, h, Len(text) * 3 + 1)
        out == url_encode(text, wide)
    IN  IF r.stop # "" THEN r
        ELSE Store(i, [r.a EXCEPT !.length = Len(out)], r.h, 0, out \o <<0>>)

-----------------------------------------------------------------------------
(* Slice<T> operations that SharedArray<T> inherits *)

RECURSIVE ScanToken(_, _, _)
\* while (offset < length && !delimiters.contains(ptr[offset])) ++offset;
ScanToken(e, offset, delims) ==
    IF offset < Len(e) /\ e[offset + 1] \notin delims
    THEN ScanToken(e, offset + 1, delims)
    ELSE offset

RECURSIVE TokeniseFrom(_, _, _, _, _)
\* the loop of Slice::tokenise(tokens, delimiters), SkipEmptyTokens false:
\* the offset it ends with
TokeniseFrom(e, offset, numTokens, maxTokens, delims) ==
    IF offset < Len(e) /\ numTokens < maxTokens
    THEN TokeniseFrom(e, ScanToken(e, offset, delims) + 1, numTokens + 1,
                      maxTokens, delims)
    ELSE offset

\* Slice::tokenise(tokens, delimiters) on the elements e: the number of
\* elements by which it advances ptr and shortens length
tokenise(e, maxTokens, delims) ==
    LET offset == TokeniseFrom(e, 0, 0, maxTokens, delims)
    IN  IF offset > Len(e) THEN Len(e) ELSE offset

-----------------------------------------------------------------------------
(* SharedArray<T> *)

\* the type Array<T, 0> of the temporaries SharedArray builds, and of the
\* Array claim() returns: the type of slot 2
Plain == 2

NullShared == [live |-> TRUE, ptr |-> Null, off |-> 0, length |-> 0]
DeadShared == [live |-> FALSE, ptr |-> Null, off |-> 0, length |-> 0]

\* a copy that forgets to count itself
IncRcNone(h, p) == h

\* ++rc and --rc on the 21-bit field of the header
IncRc(h, p) == [h EXCEPT ![p].rc = (@ + 1) % Pow2(RcBits)]
DecRc(h, p) == [h EXCEPT ![p].rc = (@ - 1) % Pow2(RcBits)]

\* SharedArray::use_count
use_count(x, h) == IF x.ptr # Null THEN h[x.ptr].rc ELSE 0

\* a clear that releases the block whatever its count
SharedClearAlways(x, h) ==
    IF x.ptr = Null THEN [x |-> x, h |-> h]
    ELSE [x |-> [x EXCEPT !.ptr = Null, !.off = 0, !.length = 0],
          h |-> free_array(h, x.ptr)]

\* SharedArray::clear
SharedClear(x, h) ==
    IF x.ptr = Null THEN [x |-> x, h |-> h]
    ELSE [x |-> [x EXCEPT !.ptr = Null, !.off = 0, !.length = 0],
          h |-> IF h[x.ptr].rc > 1 THEN DecRc(h, x.ptr) ELSE free_array(h, x.ptr)]

\* a copy constructor that allocates a block of its own for the elements
SharedCopyDeep(y, h) ==
    IF y.ptr = Null \/ NewId(h) = Null THEN [x |-> NullShared, h |-> h]
    ELSE [x |-> [y EXCEPT !.live = TRUE, !.ptr = NewId(h)],
          h |-> [alloc_array(h, h[y.ptr].bytes) EXCEPT ![NewId(h)].mem = h[y.ptr].mem]]

\* SharedArray::SharedArray(const SharedArray &val)
SharedCopy(y, h) ==
    [x |-> [y EXCEPT !.live = TRUE],
     h |-> IF y.ptr # Null THEN IncRc(h, y.ptr) ELSE h]

\* a conversion that adopts heap storage and drops inline contents
SharedFromArrayDrop(j, b, h) ==
    IF is_allocated(j, b)
    THEN [x |-> [NullShared EXCEPT !.ptr = b.ptr, !.length = b.length],
          b |-> [b EXCEPT !.ptr = Null, !.length = 0], h |-> h, stop |-> ""]
    ELSE [x |-> NullShared, b |-> b, h |-> h, stop |-> ""]

\* SharedArray::SharedArray(Array<U, N, S> &&rval): b is the source, in slot
\* j.  Inline contents go through a temporary Array<T, 0>, which is adopted
\* and dies empty; b is then left as it was.
SharedFromArray(j, b, h) ==
    IF b.ptr # Null /\ ~is_allocated(j, b)
    THEN LET m == ArrayMoveCtor(Plain, j, b, h)
         IN  [x |-> [NullShared EXCEPT !.ptr = m.a.ptr, !.length = m.a.length],
              b |-> m.b, h |-> m.h, stop |-> m.stop]
    ELSE [x |-> [NullShared EXCEPT !.ptr = b.ptr, !.length = b.length],
          b |-> [b EXCEPT !.ptr = Null, !.length = 0], h |-> h, stop |-> ""]

\* SharedArray::SharedArray(U *ptr, size_t length) and SharedArray(Slice):
\* from a temporary Array<T, 0>(ptr, length)
SharedFromPtr(h, vals) ==
    LET t == ArrayFromPtr(Plain, h, vals)
    IN  IF t.stop # "" THEN [x |-> NullShared, h |-> t.h, stop |-> t.stop]
        ELSE LET c == SharedFromArray(Plain, t.a, t.h)
             IN  [x |-> c.x, h |-> destroy(Plain, c.b, c.h).h, stop |-> c.stop]

\* SharedArray::operator=(const SharedArray &arr)
SharedAssign(x, y, h) ==
    IF y.ptr = Null THEN SharedClear(x, h)
    ELSE IF y.ptr # x.ptr
    THEN LET c == SharedClear(x, h)
         IN  [x |-> [c.x EXCEPT !.ptr = y.ptr, !.off = y.off, !.length = y.length],
              h |-> IncRc(c.h, y.ptr)]
    ELSE [x |-> x, h |-> h]

\* SharedArray::claim: thrown is TRUE when it throws; a is the Array returned
claim(x, h) ==
    IF use_count(x, h) > 1
    THEN [thrown |-> TRUE, x |-> x, a |-> DeadObj]
    ELSE IF x.length > 0
    THEN [thrown |-> FALSE,
          x |-> [x EXCEPT !.ptr = Null, !.off = 0, !.length = 0],
          a |-> [EmptyObj EXCEPT !.ptr = x.ptr, !.length = x.length]]
    ELSE [thrown |-> FALSE, x |-> x, a |-> EmptyObj]

-----------------------------------------------------------------------------
(* State *)

\* what the last call returned: ok is FALSE when it threw
NoRes == [op |-> "none", ok |-> TRUE, val |-> 0]

Init ==
    /\ heap = [p \in Blocks |-> FreeBlock]
    /\ arr = [i \in ArrIds |-> DeadObj]
    /\ sh = [s \in ShIds |-> DeadShared]
    /\ crowd = [p \in Blocks |-> 0]
    /\ res = NoRes
    /\ hung = FALSE
    /\ ub = FALSE

\* no call is in an endless loop and no undefined behaviour has happened
\* an array whose length is beyond its storage is outside the precondition
\* of every operation
InStorage(i) == arr[i].live => arr[i].length <= Capacity(i, arr[i], heap)

Running == ~hung /\ ~ub /\ \A i \in ArrIds : InStorage(i)

SeqsUpTo(S, n) == UNION {[1..k -> S] : k \in 0..n}

Min(x, y) == IF x <= y THEN x ELSE y

\* A destroyed element holds no object and no operation reads it: the slots
\* past length are not part of the state, except the one at length, where
\* a text array keeps its terminator.
Kept(i, a, buf) ==
    IF IsText(i) THEN Take(buf, Min(Len(buf), a.length + 1))
    ELSE Take(buf, Min(Len(buf), a.length))

Forget(i, a) ==
    [a EXCEPT !.local = IF a.ptr = Local THEN Kept(i, a, @) ELSE <<>>]

\* the same for the blocks of the arrays as, and for the blocks that nothing
\* references any more
ForgetHeap(as, h) ==
    [p \in Blocks |->
        LET owners == {i \in ArrIds : as[i].ptr = p}
        IN  IF owners # {}
            THEN LET i == CHOOSE j \in owners : TRUE
                 IN  [h[p] EXCEPT !.mem = Kept(i, as[i], @)]
            ELSE IF h[p].state = "live" /\ \A t \in ShIds : sh[t].ptr # p
            THEN [h[p] EXCEPT !.mem = <<>>]
            ELSE h[p]]

\* A store outside the storage is undefined: the values either land in the
\* memory behind it and are read back, or they are lost.
Outcomes(i, r) ==
    IF r.stop # "ub" THEN {r}
    ELSE LET cap == Capacity(i, r.a, r.h)
             lost == IF r.a.ptr = Local
                     THEN [r EXCEPT !.a.local = Take(@, cap)]
                     ELSE IF r.a.ptr = Null THEN r
                     ELSE [r EXCEPT !.h[r.a.ptr].mem = Take(@, cap)]
         IN  {r, lost}

\* the outcome r of the call op on the array in slot i; a call that never
\* returns leaves the program stuck inside it
CommitRes(i, r, rs) ==
    /\ r.stop # "oom"
    /\ hung' = (r.stop = "hung")
    /\ ub' = (r.stop = "ub")
    /\ \E o \in Outcomes(i, r) :
        /\ arr' = IF o.stop = "hung" THEN arr ELSE [arr EXCEPT ![i] = Forget(i, o.a)]
        /\ heap' = IF o.stop = "hung" THEN heap
                 ELSE Settle(ForgetHeap([arr EXCEPT ![i] = o.a], o.h))
    /\ res' = rs
    /\ UNCHANGED <<sh, crowd>>

CommitAs(i, r, op) == CommitRes(i, r, [NoRes EXCEPT !.op = op])

\* a call stopped by a failed SLICE_ASSERT: nothing has changed
Rejected(op) ==
    /\ res' = [op |-> op, ok |-> FALSE, val |-> 0]
    /\ UNCHANGED <<heap, arr, sh, crowd, hung, ub>>

Commit(i, r) == CommitAs(i, r, "none")

\* the same for a call that also changes its source, in slot j
Commit2As(i, j, r, op) ==
    /\ r.stop # "oom"
    /\ hung' = (r.stop = "hung")
    /\ ub' = (r.stop = "ub")
    /\ \E o \in Outcomes(i, r) :
        /\ arr' = IF o.stop = "hung" THEN arr
                ELSE [arr EXCEPT ![i] = Forget(i, o.a), ![j] = Forget(j, o.b)]
        /\ heap' = IF o.stop = "hung" THEN heap
                 ELSE Settle(ForgetHeap([arr EXCEPT ![i] = o.a, ![j] = o.b], o.h))
    /\ res' = [NoRes EXCEPT !.op = op]
    /\ UNCHANGED <<sh, crowd>>

Commit2(i, j, r) == Commit2As(i, j, r, "none")

SameFamily(i, j) == IsText(i) = IsText(j)

-----------------------------------------------------------------------------
(* Operations of Array<T, Count, false> *)

ArrayDefault(i) ==
    /\ Running /\ ~arr[i].live
    /\ Commit(i, Ret(EmptyObj, heap))

ArrayCtorPtr(i, vals) ==
    /\ Running /\ ~arr[i].live
    /\ Commit(i, ArrayFromPtr(i, heap, vals))

ArrayCtorCopy(i, j) ==
    /\ Running /\ ~arr[i].live /\ arr[j].live /\ i # j /\ SameFamily(i, j)
    /\ Commit(i, ArrayFromPtr(i, heap, Elems(arr[j], heap)))

ArrayCtorMove(i, j) ==
    /\ Running /\ ~arr[i].live /\ arr[j].live /\ i # j /\ SameFamily(i, j)
    /\ Commit2(i, j, ArrayMoveCtor(i, j, arr[j], heap))

ArrayCtorMoveTemp(i, j, how, vals) ==
    /\ Running /\ ~arr[i].live /\ SameFamily(i, j)
    /\ Commit(i, MoveFromTemp(i, j, MakeTemp(j, heap, how, vals)))

ArrayCtorAlloc(i, n) ==
    /\ Running /\ ~arr[i].live
    /\ Commit(i, alloc(i, EmptyObj, heap, n))

ArrayCtorReserve(i, n) ==
    /\ Running /\ ~arr[i].live
    /\ Commit(i, reserve(i, EmptyObj, heap, n))

ArrayCtorConcat(i, vals) ==
    /\ Running /\ ~arr[i].live
    /\ Commit(i, ArrayConcat(i, heap, vals))

ArrayDtor(i) ==
    /\ Running /\ arr[i].live
    /\ Commit(i, [destroy(i, arr[i], heap) EXCEPT !.a = DeadObj])

ArrayOpAssign(i, j) ==
    /\ Running /\ arr[i].live /\ arr[j].live /\ i # j /\ SameFamily(i, j)
    /\ CommitAs(i, ArrayAssign(i, arr[i], heap, Elems(arr[j], heap)), "assign")

ArrayOpAssignMove(i, j) ==
    /\ Running /\ arr[i].live /\ arr[j].live /\ i # j /\ SameFamily(i, j)
    /\ Commit2As(i, j, ArrayAssignMove(i, arr[i], j, arr[j], heap), "assign")

ArrayOpAssignMoveTemp(i, j, how, vals) ==
    /\ Running /\ arr[i].live /\ SameFamily(i, j)
    /\ CommitAs(i, AssignMoveFromTemp(i, arr[i], j, MakeTemp(j, heap, how, vals)),
                "assign")

ArrayOpAssignSlice(i, vals) ==
    /\ Running /\ arr[i].live
    /\ CommitAs(i, ArrayAssign(i, arr[i], heap, vals), "assign")

ArrayReserve(i, n) ==
    /\ Running /\ arr[i].live
    /\ CommitAs(i, reserve(i, arr[i], heap, n), "reserve")

ArrayAlloc(i, n) ==
    /\ Running /\ arr[i].live
    /\ Commit(i, alloc(i, arr[i], heap, n))

ArrayResize(i, n) ==
    /\ Running /\ arr[i].live
    /\ Commit(i, resize(i, arr[i], heap, n))

ArrayClear(i) ==
    /\ Running /\ arr[i].live
    /\ CommitAs(i, Ret(clear(arr[i]), heap), "clear")

ArrayAppend(i, vals) ==
    /\ Running /\ arr[i].live /\ arr[i].length + Len(vals) <= MaxLen
    /\ Commit(i, append(i, arr[i], heap, vals))

ArrayPushBack(i, v) ==
    /\ Running /\ arr[i].live /\ arr[i].length < MaxLen
    /\ Commit(i, push_back(i, arr[i], heap, v))

\* SLICE_ASSERT is compiled in (asserts) or compiled out
\* a.pop_back(): without the assertion, an empty array has its length wrapped
\* and ptr[length] read
ArrayPopBack(i) ==
    /\ Running /\ arr[i].live
    /\ \E asserts \in BOOLEAN :
        IF arr[i].length > 0
        THEN CommitRes(i, Ret(pop_back(arr[i]), heap),
                       [op |-> "pop_back", ok |-> TRUE,
                        val |-> At(Buf(arr[i], heap), arr[i].length)])
        ELSE IF asserts THEN Rejected("pop_back")
        ELSE CommitRes(i, [a |-> pop_back(arr[i]), h |-> heap, stop |-> "ub"],
                       [op |-> "pop_back", ok |-> TRUE, val |-> Uninit])

\* a.pop_back(n)
ArrayPopBackN(i, n) ==
    /\ Running /\ arr[i].live
    /\ \E asserts \in BOOLEAN :
        IF asserts /\ ~PopBackAssert(arr[i], n) THEN Rejected("pop_back_n")
        ELSE CommitRes(i, Ret(pop_back_n(arr[i], n), heap),
                       [op |-> "pop_back_n", ok |-> TRUE, val |-> 0])

ArrayRemove(i, k) ==
    /\ Running /\ arr[i].live /\ k < arr[i].length
    /\ CommitRes(i, remove(i, arr[i], heap, k),
                 [op |-> "remove", ok |-> TRUE, val |-> At(Buf(arr[i], heap), k + 1)])

ArrayRemoveSwapLast(i, k) ==
    /\ Running /\ arr[i].live /\ k < arr[i].length
    /\ CommitRes(i, remove_swap_last(i, arr[i], heap, k),
                 [op |-> "remove_swap_last", ok |-> TRUE,
                  val |-> At(Buf(arr[i], heap), k + 1)])

\* arguments of reserve: an inline size, one past the longest content, and
\* one past the first heap capacity
ReserveArgs == {0, CountA, MaxLen + 1, MinInitialAlloc + 1}

IntSeqs == SeqsUpTo(IntVals, MaxLen)

\* the array in slot i is the only array object there is
Solo(i) == \A j \in ArrIds \ {i} : ~arr[j].live

Hows == {"ptr", "concat"}

\* One Array<int, Count> at a time, of either type, under every operation;
\* the arrays it is moved from are temporaries.
NextArray ==
    \/ \E i \in IntArrays : Solo(i) /\ ArrayDefault(i)
    \/ \E i \in IntArrays, vals \in IntSeqs : Solo(i) /\ ArrayCtorPtr(i, vals)
    \/ \E i \in IntArrays, n \in 0..MaxLen : Solo(i) /\ ArrayCtorAlloc(i, n)
    \/ \E i \in IntArrays, n \in ReserveArgs : Solo(i) /\ ArrayCtorReserve(i, n)
    \/ \E i \in IntArrays, vals \in IntSeqs : Solo(i) /\ ArrayCtorConcat(i, vals)
    \/ \E i, j \in IntArrays, how \in Hows, vals \in IntSeqs :
           Solo(i) /\ ArrayCtorMoveTemp(i, j, how, vals)
    \/ \E i \in IntArrays : Solo(i) /\ ArrayDtor(i)
    \/ \E i \in IntArrays, vals \in IntSeqs : Solo(i) /\ ArrayOpAssignSlice(i, vals)
    \/ \E i, j \in IntArrays, how \in Hows, vals \in IntSeqs :
           Solo(i) /\ ArrayOpAssignMoveTemp(i, j, how, vals)
    \/ \E i \in IntArrays, n \in ReserveArgs : Solo(i) /\ ArrayReserve(i, n)
    \/ \E i \in IntArrays, n \in 0..MaxLen : Solo(i) /\ ArrayAlloc(i, n)
    \/ \E i \in IntArrays, n \in 0..MaxLen : Solo(i) /\ ArrayResize(i, n)
    \/ \E i \in IntArrays : Solo(i) /\ ArrayClear(i)
    \/ \E i \in IntArrays, vals \in IntSeqs : Solo(i) /\ ArrayAppend(i, vals)
    \/ \E i \in IntArrays, v \in IntVals : Solo(i) /\ ArrayPushBack(i, v)
    \/ \E i \in IntArrays : Solo(i) /\ ArrayPopBack(i)
    \/ \E i \in IntArrays, n \in 0..(MaxLen + 1) : Solo(i) /\ ArrayPopBackN(i, n)
    \/ \E i \in IntArrays, k \in 0..MaxLen : Solo(i) /\ ArrayRemove(i, k)
    \/ \E i \in IntArrays, k \in 0..MaxLen : Solo(i) /\ ArrayRemoveSwapLast(i, k)

SpecArray == Init /\ [][NextArray]_vars

-----------------------------------------------------------------------------
(* Operations of Array<char, Count, true> *)

TextCtorPtr(i, text) ==
    /\ Running /\ ~arr[i].live
    /\ Commit(i, TextFromPtr(i, heap, text))

TextCtorMoveTemp(i, j, text) ==
    /\ Running /\ ~arr[i].live
    /\ Commit(i, TextMoveFromTemp(i, j, TextFromPtr(j, heap, text)))

TextOpAssignSlice(i, text) ==
    /\ Running /\ arr[i].live
    /\ CommitAs(i, TextAssign(i, arr[i], heap, text), "assign")

\* a = std::move(temp): clear(), then the move constructor in place
TextOpAssignMoveTemp(i, j, text) ==
    /\ Running /\ arr[i].live
    /\ CommitAs(i, TextMoveFromTemp(i, j, TextFromPtr(j, heap, text)), "assign")

TextAppend(i, text) ==
    /\ Running /\ arr[i].live /\ arr[i].length + Len(text) <= MaxLen
    /\ Commit(i, text_append(i, arr[i], heap, text))

TextUrlEncode(i, text, wide) ==
    /\ Running /\ arr[i].live
    /\ Commit(i, text_url_encode(i, arr[i], heap, text, wide))

\* 'A'
TextVals == {65}

\* 'A' and o with diaeresis
WideVals == {65, 246}

Texts == SeqsUpTo(TextVals, 2)

\* the sources of url_encode: char text with 'A' and '%', char32_t text
UrlTexts == {<<t, w>> : t \in SeqsUpTo({65, 37}, 1), w \in {FALSE}} \cup
            {<<t, w>> : t \in SeqsUpTo(WideVals, 1), w \in {TRUE}}

\* One Array<char, Count> at a time, of either type; the arrays it is moved
\* from are temporaries.
NextText ==
    \/ \E i \in TextArrays : Solo(i) /\ ArrayDefault(i)
    \/ \E i \in TextArrays, text \in Texts : Solo(i) /\ TextCtorPtr(i, text)
    \/ \E i, j \in TextArrays, text \in Texts : Solo(i) /\ TextCtorMoveTemp(i, j, text)
    \/ \E i \in TextArrays : Solo(i) /\ ArrayDtor(i)
    \/ \E i \in TextArrays, text \in Texts : Solo(i) /\ TextOpAssignSlice(i, text)
    \/ \E i, j \in TextArrays, text \in Texts :
           Solo(i) /\ TextOpAssignMoveTemp(i, j, text)
    \/ \E i \in TextArrays, n \in ReserveArgs : Solo(i) /\ ArrayReserve(i, n)
    \/ \E i \in TextArrays : Solo(i) /\ ArrayClear(i)
    \/ \E i \in TextArrays, text \in Texts : Solo(i) /\ TextAppend(i, text)
    \/ \E i \in TextArrays, u \in UrlTexts : Solo(i) /\ TextUrlEncode(i, u[1], u[2])
    \/ \E i \in TextArrays, v \in TextVals : Solo(i) /\ ArrayPushBack(i, v)
    \/ \E i \in TextArrays : Solo(i) /\ ArrayPopBack(i)

SpecText == Init /\ [][NextText]_vars

-----------------------------------------------------------------------------
(* Operations of SharedArray<int> *)

\* the header of the block x points at can be read: x is null, or points at
\* the start of a block that has not been released
Valid(x) ==
    IF x.ptr = Null THEN TRUE ELSE heap[x.ptr].state = "live" /\ x.off = 0

\* the outcome of a call on the SharedArray in slot s
ShCommit(s, x, h) ==
    /\ sh' = [sh EXCEPT ![s] = x]
    /\ heap' = Settle(h)
    /\ res' = NoRes
    /\ UNCHANGED <<arr, crowd, hung, ub>>

\* the same for a call that also changes its source, in slot t
ShCommit2(s, x, t, y, h) ==
    /\ sh' = [sh EXCEPT ![s] = x, ![t] = y]
    /\ heap' = Settle(h)
    /\ res' = NoRes
    /\ UNCHANGED <<arr, crowd, hung, ub>>

\* the same for a call whose source is the Array in slot j
ShCommitArr(s, j, c) ==
    /\ c.stop = ""
    /\ sh' = [sh EXCEPT ![s] = c.x]
    /\ arr' = [arr EXCEPT ![j] = Forget(j, c.b)]
    /\ heap' = Settle(c.h)
    /\ res' = [NoRes EXCEPT !.op = "from_array"]
    /\ UNCHANGED <<crowd, hung, ub>>

ShDefault(s) ==
    /\ Running /\ ~sh[s].live
    /\ ShCommit(s, NullShared, heap)

ShCtorPtr(s, vals) ==
    /\ Running /\ ~sh[s].live
    /\ LET c == SharedFromPtr(heap, vals)
       IN  c.stop = "" /\ ShCommit(s, c.x, c.h)

ShCtorCopy(s, t) ==
    /\ Running /\ ~sh[s].live /\ sh[t].live /\ Valid(sh[t])
    /\ LET c == SharedCopy(sh[t], heap) IN ShCommit(s, c.x, c.h)

\* SharedArray::SharedArray(SharedArray<U, S> &&rval)
ShCtorMove(s, t) ==
    /\ Running /\ ~sh[s].live /\ sh[t].live
    /\ ShCommit2(s, sh[t], t, NullShared, heap)

ShCtorArray(s, j) ==
    /\ Running /\ ~sh[s].live /\ arr[j].live
    /\ ShCommitArr(s, j, SharedFromArray(j, arr[j], heap))

\* SharedArray::~SharedArray
ShDtor(s) ==
    /\ Running /\ sh[s].live /\ Valid(sh[s])
    /\ ShCommit(s, DeadShared, SharedClear(sh[s], heap).h)

\* s.clear(); the result kept is what use_count() returned before the call
ShClear(s) ==
    /\ Running /\ sh[s].live /\ Valid(sh[s])
    /\ LET c == SharedClear(sh[s], heap)
       IN  /\ sh' = [sh EXCEPT ![s] = c.x]
           /\ heap' = Settle(c.h)
    /\ res' = [op |-> "clear", ok |-> TRUE, val |-> use_count(sh[s], heap)]
    /\ UNCHANGED <<arr, crowd, hung, ub>>

ShOpAssign(s, t) ==
    /\ Running /\ sh[s].live /\ sh[t].live /\ Valid(sh[s]) /\ Valid(sh[t])
    /\ LET c == SharedAssign(sh[s], sh[t], heap) IN ShCommit(s, c.x, c.h)

\* SharedArray::operator=(SharedArray &&rval), this != &rval
ShOpAssignMove(s, t) ==
    /\ Running /\ sh[s].live /\ sh[t].live /\ s # t /\ Valid(sh[s])
    /\ ShCommit2(s, sh[t], t, NullShared, SharedClear(sh[s], heap).h)

\* SharedArray::operator=(Array<U, N, S> &&rval)
ShOpAssignArray(s, j) ==
    /\ Running /\ sh[s].live /\ arr[j].live /\ Valid(sh[s])
    /\ ShCommitArr(s, j, SharedFromArray(j, arr[j], SharedClear(sh[s], heap).h))

\* SharedArray::operator=(Slice<U, S> arr)
ShOpAssignSlice(s, vals) ==
    /\ Running /\ sh[s].live /\ Valid(sh[s])
    /\ LET c == SharedFromPtr(SharedClear(sh[s], heap).h, vals)
       IN  c.stop = "" /\ ShCommit(s, c.x, c.h)

\* Array<T> a = s.claim(), a being the Array of slot i
ShClaim(s, i) ==
    /\ Running /\ sh[s].live /\ Valid(sh[s]) /\ ~arr[i].live /\ CountOf(i) = 0
    /\ LET c == claim(sh[s], heap)
       IN  /\ sh' = [sh EXCEPT ![s] = c.x]
           /\ arr' = IF c.thrown THEN arr ELSE [arr EXCEPT ![i] = c.a]
           /\ res' = [op |-> "claim", ok |-> ~c.thrown, val |-> 0]
    /\ UNCHANGED <<heap, crowd, hung, ub>>

\* s == t: the argument is passed by value, a copy that dies when the call
\* returns
ShEquals(s, t) ==
    /\ Running /\ sh[s].live /\ sh[t].live /\ Valid(sh[s]) /\ Valid(sh[t])
    /\ LET c == SharedCopy(sh[t], heap)
       IN  /\ heap' = Settle(SharedClear(c.x, c.h).h)
           /\ res' = [op |-> "eq", ok |-> TRUE,
                      val |-> IF sh[s].ptr = c.x.ptr /\ sh[s].off = c.x.off
                              THEN 1 ELSE 0]
    /\ UNCHANGED <<sh, arr, crowd, hung, ub>>

\* any call that reads the header of a released block, or at a pointer that
\* is not the start of a block: undefined
ShBadHeader(s) ==
    /\ Running /\ sh[s].live /\ ~Valid(sh[s])
    /\ ub' = TRUE
    /\ UNCHANGED <<heap, arr, sh, crowd, res, hung>>

\* s.tokenise(tokens, delimiters), inherited from Slice<T>: tokens has room
\* for maxTokens tokens
ShTokenise(s, maxTokens, delims) ==
    /\ Running /\ sh[s].live /\ Valid(sh[s])
    /\ LET e == IF sh[s].ptr = Null THEN <<>> ELSE Take(heap[sh[s].ptr].mem, sh[s].length)
           n == tokenise(e, maxTokens, delims)
       IN  sh' = [sh EXCEPT ![s].off = @ + n, ![s].length = @ - n]
    /\ res' = NoRes
    /\ UNCHANGED <<heap, arr, crowd, hung, ub>>

\* the SharedArray instances that reference block p: those in the slots and
\* the crowd
Holders(p) == {s \in ShIds : sh[s].live /\ sh[s].ptr = p}
Sharers(p) == Cardinality(Holders(p)) + crowd[p]

\* the slots used together with a crowd
ShPair == {1, 2}

\* with the instances of these slots, a crowd brings the sharers of a block up
\* to the largest value its 21-bit count can hold
CrowdSize == Pow2(RcBits) - 1 - Cardinality(ShPair)

\* CrowdSize copies of the SharedArray in slot s are constructed, one after
\* the other, and kept: the copy constructor runs CrowdSize times
ShCopyMany(s) ==
    /\ Running /\ sh[s].live /\ sh[s].ptr # Null /\ Valid(sh[s])
    /\ \A p \in Blocks : crowd[p] = 0
    /\ crowd' = [crowd EXCEPT ![sh[s].ptr] = CrowdSize]
    /\ heap' = [heap EXCEPT ![sh[s].ptr].rc = (@ + CrowdSize) % Pow2(RcBits)]
    /\ res' = NoRes
    /\ UNCHANGED <<arr, sh, hung, ub>>

\* the crowd of block p is destroyed, one instance after the other: each
\* destructor decrements a count above 1 and releases the block otherwise,
\* and the ones that run after the release read a released header
ShDestroyMany(p) ==
    /\ Running /\ crowd[p] > 0 /\ heap[p].state = "live"
    /\ crowd' = [crowd EXCEPT ![p] = 0]
    /\ heap' = IF heap[p].rc > crowd[p]
               THEN [heap EXCEPT ![p].rc = @ - crowd[p]]
               ELSE Settle(free_array(heap, p))
    /\ ub' = (heap[p].rc < crowd[p])
    /\ res' = NoRes
    /\ UNCHANGED <<arr, sh, hung>>

\* the contents SharedArrays and their source Arrays are built from
ShSeqs == {<<1>>, <<2, 1>>}

\* SharedArray<int> instances, the Array<int> they are converted from and
\* claimed into, and a crowd of further copies.
NextShared ==
    \/ \E s \in ShPair : ShDefault(s)
    \/ \E s \in ShPair, vals \in ShSeqs : ShCtorPtr(s, vals)
    \/ \E s, t \in ShPair : ShCtorCopy(s, t)
    \/ \E s, t \in ShPair : ShCtorMove(s, t)
    \/ \E s \in ShPair : ShCtorArray(s, Plain)
    \/ \E s \in ShPair : ShDtor(s)
    \/ \E s \in ShPair : ShClear(s)
    \/ \E s, t \in ShPair : ShOpAssign(s, t)
    \/ \E s, t \in ShPair : ShOpAssignMove(s, t)
    \/ \E s \in ShPair : ShOpAssignArray(s, Plain)
    \/ \E s \in ShPair, vals \in ShSeqs : ShOpAssignSlice(s, vals)
    \/ \E s \in ShPair : ShClaim(s, Plain)
    \/ \E s, t \in ShPair : ShEquals(s, t)
    \/ \E s \in ShPair : ShBadHeader(s)
    \/ \E s \in ShPair : ShCopyMany(s)
    \/ \E p \in Blocks : ShDestroyMany(p)
    \/ \E vals \in ShSeqs : ArrayCtorPtr(Plain, vals)
    \/ \E n \in 1..1 : ArrayCtorReserve(Plain, n)
    \/ ArrayDtor(Plain)

SpecShared == Init /\ [][NextShared]_vars

\* Three SharedArray<int> instances: a source and its copies.
NextCopies ==
    \/ \E s \in ShIds : ShDefault(s)
    \/ \E s \in ShIds, vals \in ShSeqs : ShCtorPtr(s, vals)
    \/ \E s, t \in ShIds : ShCtorCopy(s, t)
    \/ \E s, t \in ShIds : ShCtorMove(s, t)
    \/ \E s \in ShIds : ShDtor(s)
    \/ \E s \in ShIds : ShClear(s)
    \/ \E s, t \in ShIds : ShOpAssign(s, t)
    \/ \E s, t \in ShIds : ShOpAssignMove(s, t)
    \/ \E s \in ShIds, vals \in ShSeqs : ShOpAssignSlice(s, vals)
    \/ \E s, t \in ShIds : ShEquals(s, t)

SpecCopies == Init /\ [][NextCopies]_vars

\* SharedArray<int> instances under their own operations and the Slice<int>
\* operations they inherit.
NextView ==
    \/ \E s \in ShPair : ShDefault(s)
    \/ \E s \in ShPair, vals \in ShSeqs : ShCtorPtr(s, vals)
    \/ \E s, t \in ShPair : ShCtorCopy(s, t)
    \/ \E s, t \in ShPair : ShCtorMove(s, t)
    \/ \E s \in ShPair : ShCtorArray(s, Plain)
    \/ \E s \in ShPair : ShDtor(s)
    \/ \E s \in ShPair : ShClear(s)
    \/ \E s, t \in ShPair : ShOpAssign(s, t)
    \/ \E s, t \in ShPair : ShOpAssignMove(s, t)
    \/ \E s \in ShPair : ShOpAssignArray(s, Plain)
    \/ \E s \in ShPair, vals \in ShSeqs : ShOpAssignSlice(s, vals)
    \/ \E s \in ShPair : ShClaim(s, Plain)
    \/ \E s, t \in ShPair : ShEquals(s, t)
    \/ \E s \in ShPair, maxTokens \in 1..2, d \in IntVals : ShTokenise(s, maxTokens, {d})
    \/ \E s \in ShPair : ShBadHeader(s)
    \/ \E vals \in ShSeqs : ArrayCtorPtr(Plain, vals)
    \/ ArrayDtor(Plain)

SpecView == Init /\ [][NextView]_vars

\* Two Array<int, Count> objects and two SharedArray<int> instances handing
\* allocations to one another.
NextOwn ==
    \/ \E i \in IntArrays, vals \in ShSeqs : ArrayCtorPtr(i, vals)
    \/ \E i \in IntArrays, vals \in ShSeqs : ArrayCtorConcat(i, vals)
    \/ \E i, j \in IntArrays : ArrayCtorCopy(i, j)
    \/ \E i, j \in IntArrays : ArrayCtorMove(i, j)
    \/ \E i \in IntArrays : ArrayDtor(i)
    \/ \E i, j \in IntArrays : ArrayOpAssign(i, j)
    \/ \E i, j \in IntArrays : ArrayOpAssignMove(i, j)
    \/ \E i \in IntArrays : ArrayClear(i)
    \/ \E s \in ShPair : ShDefault(s)
    \/ \E s, t \in ShPair : ShCtorCopy(s, t)
    \/ \E s, t \in ShPair : ShCtorMove(s, t)
    \/ \E s \in ShPair, j \in IntArrays : ShCtorArray(s, j)
    \/ \E s \in ShPair : ShDtor(s)
    \/ \E s \in ShPair : ShClear(s)
    \/ \E s, t \in ShPair : ShOpAssign(s, t)
    \/ \E s \in ShPair, j \in IntArrays : ShOpAssignArray(s, j)
    \/ \E s \in ShPair : ShClaim(s, Plain)

SpecOwn == Init /\ [][NextOwn]_vars

-----------------------------------------------------------------------------
(* Slice<T>: a view is a pointer into a buffer and a length.  The buffer is
   mem, the pointer is mem's start plus off elements. *)

\* the elements ptr[0 .. length - 1]
ViewElems(v) == [k \in 1..v.length |-> At(v.mem, v.off + k)]

\* the views of at most MaxLen elements into buffers of IntVals
Views ==
    {[mem |-> m, off |-> o, length |-> n] :
        m \in SeqsUpTo(IntVals, MaxLen), o \in 0..MaxLen, n \in 0..MaxLen}

ViewsIn == {v \in Views : v.off + v.length <= Len(v.mem)}

\* a slice that starts at the start of the view
sliceFromStart(v, first, last) == [v EXCEPT !.length = SizeT(last - first)]

\* Slice::slice, past its assertion
slice(v, first, last) ==
    [v EXCEPT !.off = v.off + first, !.length = SizeT(last - first)]

\* a call of a member function of a view returns: what it was called with,
\* whether it returned, and what it returned
Returns(op, in, ok, val) ==
    /\ res = NoRes
    /\ res' = [op |-> op, ok |-> ok, in |-> in, val |-> val]
    /\ UNCHANGED <<heap, arr, sh, crowd, hung, ub>>

\* the caller drops what was returned
Dropped ==
    /\ res # NoRes
    /\ res' = NoRes
    /\ UNCHANGED <<heap, arr, sh, crowd, hung, ub>>

\* v.slice(first, last), with SLICE_ASSERT compiled in (asserts) or out
SliceSlice(v, first, last, asserts) ==
    LET in == [v |-> v, first |-> first, last |-> last, asserts |-> asserts]
    IN  IF asserts /\ ~(first <= last /\ last <= v.length)
        THEN Returns("slice", in, FALSE, v)
        ELSE Returns("slice", in, TRUE, slice(v, first, last))

\* FindImpl::eq over the elements ptr[i ..] and s.ptr[0 ..]: the inner loop
\* of find_first(Slice) and find_last(Slice) ran to j == s.length
MatchAt(v, s, i) == \A j \in 0..(Len(s) - 1) : At(v.mem, v.off + i + j + 1) = s[j + 1]

Least(S) == CHOOSE x \in S : \A y \in S : x <= y
Greatest(S) == CHOOSE x \in S : \A y \in S : x >= y

\* Slice::find_first(const_reference c): the first offset where the scan stops
find_first_c(v, c) ==
    LET hits == {o \in 0..(v.length - 1) : At(v.mem, v.off + o + 1) = c}
    IN  IF hits = {} THEN v.length ELSE Least(hits)

\* Slice::find_last(const_reference c): scans down from length - 1
find_last_c(v, c) ==
    LET hits == {o \in 0..(v.length - 1) : At(v.mem, v.off + o + 1) = c}
    IN  IF hits = {} THEN v.length ELSE Greatest(hits)

\* Slice::find_first(Slice<const T> s): i runs over 0 .. len - 1 with
\* len = length - s.length
find_first(v, s) ==
    IF Len(s) = 0 THEN 0
    ELSE LET len == v.length - Len(s)
             hits == {i \in 0..(len - 1) : MatchAt(v, s, i)}
         IN  IF hits = {} THEN v.length ELSE Least(hits)

\* Slice::find_last(Slice<const T> s): i runs from length - s.length down to 0
find_last(v, s) ==
    IF Len(s) = 0 THEN v.length
    ELSE LET hits == {i \in 0..(v.length - Len(s)) : MatchAt(v, s, i)}
         IN  IF hits = {} THEN v.length ELSE Greatest(hits)

\* v.find_first(c) and v.find_last(c)
SliceFindElem(v, c, last) ==
    Returns("find", [v |-> v, s |-> <<c>>, last |-> last, seq |-> FALSE], TRUE,
            IF last THEN find_last_c(v, c) ELSE find_first_c(v, c))

\* v.find_first(s) and v.find_last(s)
SliceFindSeq(v, s, last) ==
    Returns("find", [v |-> v, s |-> s, last |-> last, seq |-> TRUE], TRUE,
            IF last THEN find_last(v, s) ELSE find_first(v, s))

\* a get_left_at that returns an empty view when the find returned length
get_left_at_or_empty(v, offset, n, inclusive) ==
    [v EXCEPT !.length = IF offset = v.length THEN 0
                         ELSE IF inclusive THEN offset + n ELSE offset]

\* get_left_at_first / get_left_at_last: offset is what the find returned,
\* n the length of what was searched for
get_left_at(v, offset, n, inclusive) ==
    [v EXCEPT !.length = IF offset # v.length /\ inclusive THEN offset + n ELSE offset]

\* get_right_at_first / get_right_at_last
get_right_at(v, offset, n, inclusive) ==
    LET o == IF offset # v.length /\ ~inclusive THEN offset + n ELSE offset
    IN  [v EXCEPT !.off = v.off + o, !.length = SizeT(v.length - o)]

\* v.get_left_at_first(x, inclusive), v.get_left_at_last(x, inclusive),
\* v.get_right_at_first(x, inclusive) and v.get_right_at_last(x, inclusive),
\* for an element (s has it alone, seq is FALSE) and for a sequence
SliceGetAt(v, s, seq, last, left, inclusive) ==
    LET offset == IF seq THEN (IF last THEN find_last(v, s) ELSE find_first(v, s))
                  ELSE (IF last THEN find_last_c(v, s[1]) ELSE find_first_c(v, s[1]))
    IN  Returns("get_at",
                [v |-> v, s |-> s, seq |-> seq, last |-> last, left |-> left,
                 inclusive |-> inclusive],
                TRUE,
                IF left THEN get_left_at(v, offset, Len(s), inclusive)
                ELSE get_right_at(v, offset, Len(s), inclusive))

\* Slice<T>(0, n): a null pointer with a length
NullView(n) == [mem |-> <<>>, off |-> 0, length |-> n]

\* Slice::eq(Slice<const T> slice): compares element by element up to the
\* first difference; reading ptr[i] outside the buffer is undefined
eq(v, s) ==
    IF v.length # Len(s) THEN "false"
    ELSE LET stops == {i \in 1..v.length :
                          v.off + i > Len(v.mem) \/ At(v.mem, v.off + i) # s[i]}
         IN  IF stops = {} THEN "true"
             ELSE IF v.off + Least(stops) > Len(v.mem) THEN "ub"
             ELSE "false"

\* Slice::begins_with(Slice<const T> slice)
begins_with(v, s) ==
    IF v.length < Len(s) THEN "false" ELSE eq(NullView(Len(s)), s)

\* v.begins_with(s): undefined behaviour ends the call without a return
\* (ok is FALSE) or returns either value
SliceBeginsWith(v, s, ok, val) ==
    LET r == begins_with(v, s)
    IN  /\ r = "ub" \/ (ok /\ val = (r = "true"))
        /\ Returns("begins_with", [v |-> v, s |-> s], ok, val)

\* Slice::contains(const_reference c) and contains(Slice<const T> s)
contains(v, s, seq) ==
    (IF seq THEN find_first(v, s) ELSE find_first_c(v, s[1])) # v.length

\* v.contains(x)
SliceContains(v, s, seq) ==
    Returns("contains", [v |-> v, s |-> s, seq |-> seq], TRUE, contains(v, s, seq))

RECURSIVE ScanDelims(_, _, _)
\* while (offset < length && delimiters.contains(ptr[offset])) ++offset;
ScanDelims(e, offset, delims) ==
    IF offset < Len(e) /\ e[offset + 1] \in delims
    THEN ScanDelims(e, offset + 1, delims)
    ELSE offset

\* ptr += n; length -= n;
Advance(v, n) == [v EXCEPT !.off = v.off + n, !.length = SizeT(v.length - n)]

\* Slice::pop_token<SkipEmptyTokens>(delimiters): the token and the view left
pop_token(v, delims, skip) ==
    LET e == ViewElems(v)
        offset == IF skip THEN ScanDelims(e, 0, delims) ELSE 0
        end == ScanToken(e, offset, delims)
    IN  [token |-> slice(v, offset, end),
         v |-> Advance(v, IF end < v.length THEN end + 1 ELSE end)]

RECURSIVE PopTokens(_, _, _, _, _)
\* pop_token called until the view is empty or room tokens have been
\* returned: the tokens, after toks, and the view left
PopTokens(v, toks, room, delims, skip) ==
    IF v.length = 0 \/ room = 0 THEN [tokens |-> toks, v |-> v]
    ELSE LET p == pop_token(v, delims, skip)
         IN  PopTokens(p.v, Append(toks, p.token), room - 1, delims, skip)

RECURSIVE TokeniseLoop(_, _, _, _, _, _)
\* the loop of Slice::tokenise<SkipEmptyTokens>(tokens, delimiters): the
\* tokens stored and the offset it ends with
TokeniseLoop(v, offset, toks, room, delims, skip) ==
    LET e == ViewElems(v)
    IN  IF ~(offset < v.length /\ Len(toks) < room)
        THEN [tokens |-> toks, offset |-> offset]
        ELSE IF ~skip
        THEN LET end == ScanToken(e, offset, delims)
             IN  TokeniseLoop(v, end + 1, Append(toks, slice(v, offset, end)),
                              room, delims, skip)
        ELSE LET tokStart == ScanDelims(e, offset, delims)
                 end == ScanToken(e, tokStart, delims)
             IN  IF tokStart = v.length THEN [tokens |-> toks, offset |-> tokStart]
                 ELSE TokeniseLoop(v, end, Append(toks, slice(v, tokStart, end)),
                                   room, delims, skip)

\* Slice::tokenise<SkipEmptyTokens>(tokens, delimiters), tokens having room
\* for room tokens: the tokens stored and the view left
tokenise_into(v, room, delims, skip) ==
    LET r == TokeniseLoop(v, 0, <<>>, room, delims, skip)
        offset == IF ~skip /\ r.offset > v.length THEN v.length ELSE r.offset
    IN  [tokens |-> r.tokens, v |-> Advance(v, offset)]

RECURSIVE TokeniseCalls(_, _, _, _, _)
\* the loop of Slice::tokenise<SkipEmptyTokens>(onToken, delimiters): the
\* calls of onToken, each with the token and the index it is given
TokeniseCalls(v, offset, calls, delims, skip) ==
    LET e == ViewElems(v)
        tokStart == IF skip THEN ScanDelims(e, offset, delims) ELSE offset
        end == ScanToken(e, tokStart, delims)
        \* Slice<T>(ptr + tokStart, offset)
        call == [token |-> [mem |-> v.mem, off |-> v.off + tokStart, length |-> end],
                 index |-> Len(calls)]
    IN  IF ~(offset < v.length) THEN calls
        ELSE IF skip /\ tokStart = v.length THEN calls
        ELSE TokeniseCalls(v, IF skip THEN end ELSE end + 1, Append(calls, call),
                           delims, skip)

\* Slice::tokenise<SkipEmptyTokens>(onToken, delimiters): the calls made and
\* the number returned
tokenise_each(v, delims, skip) ==
    LET calls == TokeniseCalls(v, 0, <<>>, delims, skip)
    IN  [calls |-> calls, count |-> Len(calls)]

\* v.tokenise<skip>(onToken, delimiters)
SliceTokeniseEach(v, delims, skip) ==
    Returns("tokenise_each", [v |-> v, delims |-> delims, skip |-> skip], TRUE,
            tokenise_each(v, delims, skip))

\* v.pop_token<skip>(delimiters)
SlicePopToken(v, delims, skip) ==
    Returns("pop_token", [v |-> v, delims |-> delims, skip |-> skip], TRUE,
            pop_token(v, delims, skip))

\* v.tokenise<skip>(tokens, delimiters)
SliceTokenise(v, room, delims, skip) ==
    Returns("tokenise", [v |-> v, room |-> room, delims |-> delims, skip |-> skip],
            TRUE, tokenise_into(v, room, delims, skip))

\* the views tokenised: whole buffers of up to MaxTokLen elements
TokViews ==
    {[mem |-> m, off |-> 0, length |-> Len(m)] : m \in SeqsUpTo(IntVals, MaxTokLen)}
\* the delimiter sets
DelimSets == {{2}, {}}

\* the values searched for: one is in no view
FindVals == IntVals \cup {3}
\* the sequences searched for
FindSeqs == SeqsUpTo(FindVals, 2)

\* no call has returned anything that the caller still holds
Idle == res = NoRes

NextSlice ==
    \/ Idle /\ \E v \in ViewsIn, c \in FindVals, last \in BOOLEAN : SliceFindElem(v, c, last)
    \/ Idle /\ \E v \in ViewsIn, s \in FindSeqs, last \in BOOLEAN : SliceFindSeq(v, s, last)
    \/ Idle /\ \E v \in ViewsIn, s \in FindSeqs, seq, last, left, inclusive \in BOOLEAN :
           (seq \/ Len(s) = 1) /\ SliceGetAt(v, s, seq, last, left, inclusive)
    \/ Idle /\ \E v \in ViewsIn, first, last \in 0..(MaxLen + 1), asserts \in BOOLEAN :
           SliceSlice(v, first, last, asserts)
    \/ Idle /\ \E v \in ViewsIn, s \in FindSeqs, ok, val \in BOOLEAN :
           SliceBeginsWith(v, s, ok, val)
    \/ Idle /\ \E v \in ViewsIn, s \in FindSeqs, seq \in BOOLEAN :
           (seq \/ Len(s) = 1) /\ SliceContains(v, s, seq)
    \/ Idle /\ \E v \in TokViews, delims \in DelimSets, skip \in BOOLEAN :
           SlicePopToken(v, delims, skip)
    \/ Idle /\ \E v \in TokViews, room \in 0..MaxTokLen, delims \in DelimSets,
                   skip \in BOOLEAN :
           SliceTokenise(v, room, delims, skip)
    \/ Idle /\ \E v \in TokViews, delims \in DelimSets, skip \in BOOLEAN :
           SliceTokeniseEach(v, delims, skip)
    \/ Dropped

SpecSlice == Init /\ [][NextSlice]_vars

-----------------------------------------------------------------------------
(* Array<T, Count>: the members that search through the inherited Slice *)

\* this->find_first(item) on the elements of a
FirstIndex(a, h, item) ==
    find_first_c([mem |-> Elems(a, h), off |-> 0, length |-> a.length], item)

\* remove(k) or remove_swap_last(k) on an empty array: the length wraps and
\* the slots touched lie in no storage
RemoveFromEmpty(a, h) == [a |-> [a EXCEPT !.length = SizeT(a.length - 1)], h |-> h, stop |-> "ub"]

\* Array::remove_first(const_reference item): remove(find_first(item))
remove_first(i, a, h, item) ==
    IF a.length = 0 THEN RemoveFromEmpty(a, h)
    ELSE remove(i, a, h, FirstIndex(a, h, item))

\* Array::remove_first_swap_last(const_reference item):
\* remove_swap_last(find_first(item))
remove_first_swap_last(i, a, h, item) ==
    IF a.length = 0 THEN RemoveFromEmpty(a, h)
    ELSE remove_swap_last(i, a, h, FirstIndex(a, h, item))

\* the 0-based slots remove(k) moves from, assigns to or destroys
RemoveTouches(a, k) == k..Max(k, a.length - 1)

\* the 0-based slots remove_swap_last(k) moves from, assigns to or destroys
RemoveSwapLastTouches(a, k) == {k, SizeT(a.length - 1)}

\* a.remove_first(item)
ArrayRemoveFirst(i, item) ==
    /\ Running /\ arr[i].live
    /\ CommitRes(i, remove_first(i, arr[i], heap, item),
                 [op |-> "remove_first", ok |-> TRUE, val |-> 0,
                  touched |-> RemoveTouches(arr[i], FirstIndex(arr[i], heap, item))])

\* a.remove_first_swap_last(item)
ArrayRemoveFirstSwapLast(i, item) ==
    /\ Running /\ arr[i].live
    /\ CommitRes(i, remove_first_swap_last(i, arr[i], heap, item),
                 [op |-> "remove_first_swap_last", ok |-> TRUE, val |-> 0,
                  touched |-> RemoveSwapLastTouches(arr[i], FirstIndex(arr[i], heap, item))])

\* Array<int, Count> under every operation, the searching ones included
NextArrayFind ==
    \/ NextArray
    \/ \E i \in IntArrays, item \in FindVals : Solo(i) /\ ArrayRemoveFirst(i, item)
    \/ \E i \in IntArrays, item \in FindVals : Solo(i) /\ ArrayRemoveFirstSwapLast(i, item)

SpecArrayFind == Init /\ [][NextArrayFind]_vars

-----------------------------------------------------------------------------
(* Text views, Slice<C, true>: the code-unit transcoding functions.  A text
   is a sequence of code units; a unit of width 8, 16 or 32 is a number
   below 2 ^ 8, 2 ^ 16 or 2 ^ 32. *)

\* detail::utf_seq_length<char>(char32_t c)
utf_seq_length8(c) == IF c < 128 THEN 1 ELSE IF c < 2048 THEN 2 ELSE IF c < 65536 THEN 3 ELSE 4

\* detail::utf_seq_length<char16_t>(char32_t c)
utf_seq_length16(c) == IF c < 65536 THEN 1 ELSE 2

\* a decoder that knows sequences of up to 3 units only
utf_decode_bmp(u, k) ==
    LET u0 == At(u, k)
        u1 == At(u, k + 1)
        u2 == At(u, k + 2)
    IN  IF u0 < 128 THEN [c |-> u0, n |-> 1]
        ELSE IF u0 \div 32 = 6
        THEN [c |-> (u0 % 32) * 64 + (u1 % 64), n |-> 2]
        ELSE [c |-> (u0 % 16) * 4096 + (u1 % 64) * 64 + (u2 % 64), n |-> 3]

\* detail::utf_decode(const char *utf8, char32_t *c) at the 1-based position
\* k of u: the code point stored and the number of units returned
utf_decode(u, k) ==
    LET u0 == At(u, k)
        u1 == At(u, k + 1)
        u2 == At(u, k + 2)
        u3 == At(u, k + 3)
    IN  IF u0 < 128 THEN [c |-> u0, n |-> 1]
        ELSE IF u0 \div 32 = 6
        THEN [c |-> (u0 % 32) * 64 + (u1 % 64), n |-> 2]
        ELSE IF u0 \div 16 = 14
        THEN [c |-> (u0 % 16) * 4096 + (u1 % 64) * 64 + (u2 % 64), n |-> 3]
        ELSE [c |-> (u0 % 8) * 262144 + (u1 % 64) * 4096 + (u2 % 64) * 64 + (u3 % 64),
              n |-> 4]

\* detail::utf_encode(char32_t c, char16_t *utf16): the units written
utf_encode16(c) ==
    IF c < 65536 THEN <<c>>
    ELSE <<55296 + (((c - 65536) \div 1024) % 1024), 56320 + ((c - 65536) % 1024)>>

\* detail::utf_decode(const char16_t *utf16, char32_t *c) at position k of u
utf_decode16(u, k) ==
    LET u0 == At(u, k)
        u1 == At(u, k + 1)
    IN  IF u0 >= 55296 /\ (u0 \div 1024) * 1024 = 55296
        THEN [c |-> (u0 % 1024) * 1024 + (u1 % 1024), n |-> 2]
        ELSE [c |-> u0, n |-> 1]

\* detail::utf_encode(char32_t c, char32_t *utf32)
utf_encode32(c) == <<c>>

\* detail::utf_decode(const char32_t *utf32, char32_t *c) at position k of u
utf_decode32(u, k) == [c |-> At(u, k), n |-> 1]

\* the code-unit widths
Widths == {8, 16, 32}

\* utf_encode to units of width w
Encode(c, w) == IF w = 8 THEN utf_encode(c) ELSE IF w = 16 THEN utf_encode16(c) ELSE utf_encode32(c)

\* utf_decode from units of width w
Decode(u, k, w) ==
    IF w = 8 THEN utf_decode(u, k) ELSE IF w = 16 THEN utf_decode16(u, k) ELSE utf_decode32(u, k)

\* utf_seq_length<C>(c), C of width w
SeqLength(c, w) == IF w = 8 THEN utf_seq_length8(c) ELSE IF w = 16 THEN utf_seq_length16(c) ELSE 1

\* n = utf_encode(c, buf); m = utf_decode(buf, &d), with units of width w
UtfCodec(c, w) ==
    LET units == Encode(c, w)
    IN  Returns("utf", [c |-> c, w |-> w], TRUE,
                [units |-> units, dec |-> Decode(units, 1, w),
                 len |-> SeqLength(c, w)])

\* a code point that is not a surrogate
Scalar(c) == c < 55296 \/ c > 57343

NextUtf ==
    \/ Idle /\ \E c \in 0..MaxCodePoint, w \in Widths : Scalar(c) /\ UtfCodec(c, w)
    \/ Dropped

SpecUtf == Init /\ [][NextUtf]_vars

-----------------------------------------------------------------------------
(* Text views, Slice<C, true>: parsing.  A call is modelled by the value it
   returns and the 0-based indices of the units it reads; a view may end
   before the buffer it points into does. *)

\* ptr[k] of the view v, k counted from 0
Unit(v, k) == At(v.mem, v.off + k + 1)

\* detail::to_lower(char32_t c)
to_lower(c) == IF c >= 65 /\ c <= 90 THEN c + 32 ELSE c

\* detail::is_number(char32_t c)
is_number(c) == c >= 48 /\ c <= 57

\* detail::is_hex(char32_t c)
is_hex(c) == is_number(c) \/ (c >= 97 /\ c <= 102) \/ (c >= 65 /\ c <= 70)

\* the test of the digit loop of parse_int for the base
IsDigit(c, base) ==
    IF base = 16 THEN is_hex(c)
    ELSE IF base = 10 THEN c >= 48 /\ c <= 57
    ELSE c >= 48 /\ c <= 48 + (base - 1)

\* a digit taken for its value without regard to case
DigitOfLower(c, base) == IF base = 16 /\ ~is_number(c) THEN 10 + c - 97 ELSE c - 48

\* what the digit loop of parse_int adds for the unit c: *s - '0', or
\* 10 + (*s | 0x20) - 'a' for a hexadecimal letter
DigitOf(c, base) ==
    IF base = 16 /\ ~is_number(c) THEN 10 + to_lower(c) - 97 ELSE c - 48

RECURSIVE DigitLoop(_, _, _, _)
\* while (s < end && <*s is a digit>) { number = number * base + digit; ++s; }
\* from the index s: the number and the index the loop stops at
DigitLoop(v, s, base, number) ==
    IF s < v.length /\ IsDigit(Unit(v, s), base)
    THEN DigitLoop(v, s + 1, base, number * base + DigitOf(Unit(v, s), base))
    ELSE [number |-> number, s |-> s]

\* the indices such a loop reads when it starts at s and stops at t
LoopReads(v, s, t) == {k \in s..t : k < v.length}

\* the bases parse_int has a case for
Supported(base) == base \in 2..10 \/ base = 16

\* Slice<C, true>::parse_int(bool detectBase, int base) on a view that is
\* not empty: the value returned, the indices read, and whether the switch
\* went to its default
parse_int(v, detectBase, base) ==
    LET c0 == Unit(v, 0)
        pre == IF ~detectBase THEN [base |-> base, s |-> 0, reads |-> {}]
               ELSE IF c0 = 36 THEN [base |-> 16, s |-> 1, reads |-> {0}]
               ELSE IF c0 = 48 /\ to_lower(Unit(v, 1)) = 120
               THEN [base |-> 16, s |-> 2, reads |-> {0, 1}]
               ELSE IF to_lower(c0) = 98
               THEN [base |-> 2, s |-> 1, reads |-> IF c0 = 48 THEN {0, 1} ELSE {0}]
               ELSE [base |-> base, s |-> 0, reads |-> IF c0 = 48 THEN {0, 1} ELSE {0}]
        signed == pre.base = 10
        neg == signed /\ Unit(v, pre.s) = 45
        s == IF signed /\ Unit(v, pre.s) \in {45, 43} THEN pre.s + 1 ELSE pre.s
        loop == DigitLoop(v, s, pre.base, 0)
    IN  IF ~Supported(pre.base)
        THEN [val |-> 0, reads |-> pre.reads, default |-> TRUE]
        ELSE [val |-> IF neg THEN 0 - loop.number ELSE loop.number,
              reads |-> pre.reads \cup (IF signed THEN {pre.s} ELSE {})
                            \cup LoopReads(v, s, loop.s),
              default |-> FALSE]

\* v.parse_int(detectBase, base), with SLICE_ASSERT compiled in (asserts) or
\* out
SliceParseInt(v, detectBase, base, asserts) ==
    LET in == [v |-> v, detectBase |-> detectBase, base |-> base]
        r == parse_int(v, detectBase, base)
    IN  IF v.length = 0
        THEN Returns("parse_int", in, TRUE, [val |-> 0, reads |-> {}, default |-> FALSE])
        ELSE Returns("parse_int", in, ~(r.default /\ asserts), r)

\* Slice<C, true>::parse_float(): the parts of the value returned, which is
\* (neg ? -1 : 1) * (n + f / 10 ^ fracDigits) * 10 ^ (negExp ? -exp : exp),
\* and the indices read
parse_float(v) ==
    LET c0 == Unit(v, 0)
        neg == c0 = 45
        s1 == IF c0 \in {45, 43} THEN 1 ELSE 0
        int == DigitLoop(v, s1, 10, 0)
        dot == Unit(v, int.s) = 46
        frac == IF dot THEN DigitLoop(v, int.s + 1, 10, 0) ELSE [number |-> 0, s |-> int.s]
        hasExp == Unit(v, frac.s) \in {101, 69}
        s5 == frac.s + 1
        negExp == hasExp /\ Unit(v, s5) = 45
        s6 == IF Unit(v, s5) \in {45, 43} THEN s5 + 1 ELSE s5
        exp == IF hasExp THEN DigitLoop(v, s6, 10, 0) ELSE [number |-> 0, s |-> frac.s]
    IN  [val |-> [neg |-> neg, n |-> int.number, f |-> frac.number,
                  fracDigits |-> IF dot THEN frac.s - (int.s + 1) ELSE 0,
                  negExp |-> negExp, exp |-> exp.number],
         reads |-> {0} \cup LoopReads(v, s1, int.s) \cup {int.s}
                       \cup (IF dot THEN LoopReads(v, int.s + 1, frac.s) ELSE {})
                       \cup {frac.s}
                       \cup (IF hasExp THEN {s5} \cup LoopReads(v, s6, exp.s) ELSE {})]

\* v.parse_float()
SliceParseFloat(v) == Returns("parse_float", [v |-> v], TRUE, parse_float(v))

RECURSIVE url_encode16(_, _)
\* detail::url_encode(buffer, text) for a text of char16_t units, from the
\* 1-based position k: each step decodes one code point with utf_decode and
\* encodes it to bytes with utf_encode
url_encode16(text, k) ==
    IF k > Len(text) THEN <<>>
    ELSE LET d == utf_decode16(text, k)
         IN  UrlBytes(utf_encode(d.c)) \o url_encode16(text, k + d.n)

\* detail::url_encode(buffer, text) for a text of units of width w: the
\* units written to buffer
url_encode_w(text, w) ==
    IF w = 16 THEN url_encode16(text, 1) ELSE url_encode(text, w = 32)

\* the value of a hexadecimal digit, as parse_int(false, 16) reads it
HexValue(c) == DigitOf(c, 16)

\* the bytes in utf make a whole sequence:
\* ((utf[0] & 0xE0) == 0xC0 && tlen == 2) || ((utf[0] & 0xF0) == 0xE0 && tlen == 3) || tlen == 4
WholeSequence(utf) ==
    \/ utf[1] \div 32 = 6 /\ Len(utf) = 2
    \/ utf[1] \div 16 = 14 /\ Len(utf) = 3
    \/ Len(utf) = 4

RECURSIVE PercentLoop(_, _, _, _)
\* the inner loop of detail::url_decode, entered with the code point c, the
\* 0-based index s and the bytes utf[0 .. tlen - 1] collected so far
PercentLoop(u, s, c, utf) ==
    IF ~(c = 37 /\ s < Len(u) - 1 /\ is_hex(At(u, s + 1)) /\ is_hex(At(u, s + 2)))
    THEN [c |-> c, s |-> s, utf |-> utf]
    ELSE LET got == Append(utf, HexValue(At(u, s + 1)) * 16 + HexValue(At(u, s + 2)))
         IN  IF got[1] < 128 THEN [c |-> got[1], s |-> s + 2, utf |-> <<>>]
             ELSE IF WholeSequence(got)
             THEN [c |-> utf_decode(got, 1).c, s |-> s + 2, utf |-> <<>>]
             ELSE PercentLoop(u, s + 3, At(u, s + 3), got)

RECURSIVE UrlDecodeLoop(_, _, _, _, _, _)
\* the outer loop of detail::url_decode from the 0-based index s of a url of
\* units of width wu: the units written after out to a buffer of units of
\* width w
UrlDecodeLoop(u, wu, s, utf, out, w) ==
    IF ~(s < Len(u)) THEN out
    ELSE LET d == Decode(u, s + 1, wu)
             c == IF d.c = 43 THEN 32 ELSE d.c
             p == PercentLoop(u, s + d.n, c, utf)
         IN  UrlDecodeLoop(u, wu, p.s, p.utf, out \o Encode(p.c, w), w)

\* detail::url_decode(buffer, url): the units written to buffer
url_decode(u, wu, w) == UrlDecodeLoop(u, wu, 0, <<>>, <<>>, w)

RECURSIVE EncodeText(_, _)
\* the code points cps as a text of units of width w
EncodeText(cps, w) ==
    IF cps = <<>> THEN <<>> ELSE Encode(Head(cps), w) \o EncodeText(Tail(cps), w)

\* a.url_encode(text) with text of width ws, then b.url_decode(a) with b of
\* width wd, the units of a being of width wu
UrlCodec(cps, ws, wu, wd) ==
    LET url == url_encode_w(EncodeText(cps, ws), ws)
    IN  Returns("url", [cps |-> cps, ws |-> ws, wu |-> wu, wd |-> wd], TRUE,
                [url |-> url, text |-> url_decode(url, wu, wd)])

\* ' ' '%' '+' '4' 'A' '~', o with diaeresis, U+65E5 and U+1F600
UrlPoints == {32, 37, 43, 52, 65, 126, 246, 26085, 128512}

\* x & 0xC
Mask0xC(x) == ((x \div 4) % 4) * 4

\* utf_decode at the 0-based index k of the view v of units of width w reads
\* a unit outside the buffer
Wild(v, k, w) ==
    LET first == v.off + k + 1
    IN  first < 1 \/ first + Decode(v.mem, first, w).n - 1 > Len(v.mem)

\* Slice<C, true>::pop_front_char(): the code point and the view left
pop_front_char(v, w) ==
    LET d == Decode(v.mem, v.off + 1, w)
    IN  [c |-> d.c, v |-> Advance(v, d.n), wild |-> Wild(v, 0, w)]

RECURSIVE BackScan8(_, _)
\* do --last; while ((*last & 0xC) == 0x80 && last >= this->ptr);
\* from the 0-based index last: the index the loop ends with
BackScan8(v, last) ==
    IF Mask0xC(Unit(v, last - 1)) = 128 /\ last - 1 >= 0
    THEN BackScan8(v, last - 1)
    ELSE last - 1

\* Slice<const char, true>::back_char(), length > 0
back_char8(v) ==
    LET back == Unit(v, v.length - 1)
        last == BackScan8(v, v.length - 1)
    IN  IF back < 128 THEN [c |-> back, v |-> v, wild |-> FALSE]
        ELSE [c |-> utf_decode(v.mem, v.off + last + 1).c, v |-> v, wild |-> Wild(v, last, 8)]

\* Slice<const char16_t, true>::back_char(), length > 0
back_char16(v) ==
    LET back == Unit(v, v.length - 1)
    IN  IF back >= 55296 /\ (back \div 1024) * 1024 = 56320 /\ v.length > 1
        THEN [c |-> utf_decode16(v.mem, v.off + v.length - 1).c, v |-> v,
              wild |-> Wild(v, v.length - 2, 16)]
        ELSE [c |-> back, v |-> v, wild |-> FALSE]

\* Slice<const char32_t, true>::back_char(), length > 0
back_char32(v) == [c |-> Unit(v, v.length - 1), v |-> v, wild |-> FALSE]

RECURSIVE BackCount8(_, _)
\* while (this->length >= numChars && (ptr[length - numChars] & 0xC) == 0x80)
\*     ++numChars;
BackCount8(v, numChars) ==
    IF v.length >= numChars /\ Mask0xC(Unit(v, v.length - numChars)) = 128
    THEN BackCount8(v, numChars + 1)
    ELSE numChars

\* Slice<const char, true>::pop_back_char(), length > 0
pop_back_char8(v) ==
    LET back == Unit(v, v.length - 1)
        numChars == BackCount8(v, 2)
    IN  IF back < 128 THEN [c |-> back, v |-> [v EXCEPT !.length = v.length - 1], wild |-> FALSE]
        ELSE [c |-> utf_decode(v.mem, v.off + v.length - numChars + 1).c,
              v |-> [v EXCEPT !.length = SizeT(v.length - numChars)],
              wild |-> Wild(v, v.length - numChars, 8)]

\* Slice<const char16_t, true>::pop_back_char(), length > 0: the length is
\* one less by the time it is compared with 1
pop_back_char16(v) ==
    LET back == Unit(v, v.length - 1)
        length == v.length - 1
    IN  IF back >= 55296 /\ (back \div 1024) * 1024 = 56320 /\ length > 1
        THEN [c |-> utf_decode16(v.mem, v.off + length).c,
              v |-> [v EXCEPT !.length = length - 1], wild |-> Wild(v, length - 1, 16)]
        ELSE [c |-> back, v |-> [v EXCEPT !.length = length], wild |-> FALSE]

\* Slice<const char32_t, true>::pop_back_char(), length > 0
pop_back_char32(v) ==
    [c |-> Unit(v, v.length - 1), v |-> [v EXCEPT !.length = v.length - 1], wild |-> FALSE]

\* back_char (pop FALSE) or pop_back_char (pop TRUE) of a view of units of
\* width w
BackChar(v, w, pop) ==
    IF w = 8 THEN (IF pop THEN pop_back_char8(v) ELSE back_char8(v))
    ELSE IF w = 16 THEN (IF pop THEN pop_back_char16(v) ELSE back_char16(v))
    ELSE (IF pop THEN pop_back_char32(v) ELSE back_char32(v))

\* the view of the text of the code points cps in units of width w, in a
\* buffer that goes on with the units past
ViewOfText(cps, w, past) ==
    LET text == EncodeText(cps, w)
    IN  [mem |-> text \o past, off |-> 0, length |-> Len(text)]

\* v.back_char() or v.pop_back_char() on the text cps, with SLICE_ASSERT
\* compiled in (asserts) or out.  A call that reads outside the buffer is
\* undefined and need not return.
SliceBackChar(cps, w, past, pop, asserts) ==
    LET v == ViewOfText(cps, w, past)
        in == [cps |-> cps, w |-> w, v |-> v, pop |-> pop]
        r == BackChar(v, w, pop)
    IN  IF v.length = 0
        THEN Returns("back_char", in, FALSE, [c |-> 0, v |-> v, wild |-> ~asserts])
        ELSE Returns("back_char", in, ~r.wild, r)

\* v.pop_front_char() on the text cps
SlicePopFrontChar(cps, w, past, asserts) ==
    LET v == ViewOfText(cps, w, past)
        in == [cps |-> cps, w |-> w, v |-> v]
        r == pop_front_char(v, w)
    IN  IF v.length = 0 /\ asserts
        THEN Returns("pop_front_char", in, FALSE, [c |-> 0, v |-> v, wild |-> FALSE])
        ELSE Returns("pop_front_char", in, ~r.wild, r)

\* 'A', o with diaeresis, U+65E5 and U+1F600: 1, 2, 3 and 4 units of UTF-8
CharPoints == {65, 246, 26085, 128512}
\* what the buffer holds after the view: nothing, a terminator, two
\* continuation bytes
Pasts == {<<>>, <<0>>, <<128, 128>>}

\* '$' '+' '-' '0' '1' '7' 'B' 'F' 'X' 'b' 'x'
IntUnits == {36, 43, 45, 48, 49, 55, 66, 70, 88, 98, 120}
\* '+' '-' '.' '0' '1' 'E' 'e'
FloatUnits == {43, 45, 46, 48, 49, 69, 101}
\* the bases asked for: 12 is one parse_int has no case for
Bases == {8, 10, 12, 16}

\* the views of buffers of up to MaxText units: a view starts where its
\* buffer starts and may end before it
TextViews(units) ==
    {[mem |-> m, off |-> 0, length |-> n] :
         <<m, n>> \in {x \in SeqsUpTo(units, MaxText) \X (0..MaxText) : x[2] <= Len(x[1])}}

NextTextView ==
    \/ Idle /\ \E v \in TextViews(IntUnits), detectBase, asserts \in BOOLEAN, base \in Bases :
           SliceParseInt(v, detectBase, base, asserts)
    \/ Idle /\ \E v \in TextViews(FloatUnits) : SliceParseFloat(v)
    \/ Idle /\ \E cps \in SeqsUpTo(UrlPoints, MaxUrl), ws, wu, wd \in Widths :
           UrlCodec(cps, ws, wu, wd)
    \/ Idle /\ \E cps \in SeqsUpTo(CharPoints, MaxChars), w \in Widths, past \in Pasts,
                   pop, asserts \in BOOLEAN :
           SliceBackChar(cps, w, past, pop, asserts)
    \/ Idle /\ \E cps \in SeqsUpTo(CharPoints, MaxChars), w \in Widths, past \in Pasts,
                   asserts \in BOOLEAN :
           SlicePopFrontChar(cps, w, past, asserts)
    \/ Dropped

SpecTextView == Init /\ [][NextTextView]_vars

-----------------------------------------------------------------------------
(* Array<C, Count, true>: url_encode and url_decode from text of any width *)

\* Array<C, Count, true>::url_encode(Slice<U, S> text), U of width w:
\* reserve(text.length*3 + 1), then detail::url_encode writes from ptr[0]
\* and the terminator follows at ptr[length]
text_url_encode_w(i, a, h, text, w) ==
    LET r == reserve(i, a, h, Len(text) * 3 + 1)
        out == url_encode_w(text, w)
    IN  IF r.stop # "" THEN r
        ELSE Store(i, [r.a EXCEPT !.length = Len(out)], r.h, 0, out \o <<0>>)

\* Array<C, Count, true>::url_decode(Slice<U, S> url), U of width wu and C
\* of width 8: reserve(url.length + 1), then detail::url_decode writes from
\* ptr[0] and the terminator follows at ptr[length]
text_url_decode(i, a, h, url, wu) ==
    LET r == reserve(i, a, h, Len(url) + 1)
        out == url_decode(url, wu, 8)
    IN  IF r.stop # "" THEN r
        ELSE Store(i, [r.a EXCEPT !.length = Len(out)], r.h, 0, out \o <<0>>)

\* s.url_encode(text): reserved is the capacity asked of reserve, written
\* the number of units stored from ptr[0] on, the terminator included
TextUrlEncodeW(i, text, w) ==
    /\ Running /\ arr[i].live
    /\ CommitRes(i, text_url_encode_w(i, arr[i], heap, text, w),
                 [op |-> "url_encode", ok |-> TRUE, val |-> 0,
                  reserved |-> Len(text) * 3 + 1,
                  written |-> Len(url_encode_w(text, w)) + 1])

\* s.url_decode(url)
TextUrlDecode(i, url, wu) ==
    /\ Running /\ arr[i].live
    /\ CommitRes(i, text_url_decode(i, arr[i], heap, url, wu),
                 [op |-> "url_decode", ok |-> TRUE, val |-> 0,
                  reserved |-> Len(url) + 1,
                  written |-> Len(url_decode(url, wu, 8)) + 1])

\* '%', 'A', o with diaeresis, U+1F600
CodecPoints == {37, 65, 246, 128512}

\* the texts given to url_encode, as units of width w
CodecTexts(w) == {EncodeText(cps, w) : cps \in SeqsUpTo(CodecPoints, MaxChars)}

\* the urls given to url_decode, as units of width wu: text as it is, and
\* text escaped by url_encode
CodecUrls(wu) == CodecTexts(wu) \cup {url_encode_w(t, wu) : t \in CodecTexts(wu)}

\* One Array<char, Count> at a time: constructed empty or from text,
\* reserved, given the encoding or the decoding of a source, destroyed
NextTextUrl ==
    \/ \E i \in TextArrays : Solo(i) /\ ArrayDefault(i)
    \/ \E i \in TextArrays, text \in Texts : Solo(i) /\ TextCtorPtr(i, text)
    \/ \E i \in TextArrays : Solo(i) /\ ArrayDtor(i)
    \/ \E i \in TextArrays, n \in ReserveArgs : Solo(i) /\ ArrayReserve(i, n)
    \/ \E i \in TextArrays, w \in Widths : \E text \in CodecTexts(w) :
           Solo(i) /\ TextUrlEncodeW(i, text, w)
    \/ \E i \in TextArrays, wu \in Widths : \E url \in CodecUrls(wu) :
           Solo(i) /\ TextUrlDecode(i, url, wu)

SpecTextUrl == Init /\ [][NextTextUrl]_vars

-----------------------------------------------------------------------------
(* Claims about SharedArray<int> *)

\* the header count of every referenced block is the number of instances
\* that reference it, and use_count() returns it (0 for a null instance)
CountsRight ==
    /\ \A s \in ShIds :
           sh[s].live =>
               use_count(sh[s], heap) =
                   IF sh[s].ptr = Null THEN 0 ELSE Sharers(sh[s].ptr)
    /\ \A p \in Blocks : crowd[p] > 0 => heap[p].rc = Sharers(p)

\* fewer than n instances share any one block
FewerThan(n) == \A p \in Blocks : Sharers(p) < n

C3_ClaimTransfers ==
    [][\A s \in ShIds :
          (ShClaim(s, Plain) /\ use_count(sh[s], heap) = 1)
              => /\ res'.ok
                 /\ sh'[s].ptr = Null /\ sh'[s].length = 0
                 /\ use_count(sh'[s], heap') = 0
                 /\ arr'[Plain].ptr = sh[s].ptr
                 /\ arr'[Plain].length = sh[s].length]_vars

\* the SharedArray in slot s is assigned to in this step
Assigned(s) ==
    \/ \E t \in ShIds : ShOpAssign(s, t) \/ ShOpAssignMove(s, t)
    \/ \E vals \in ShSeqs : ShOpAssignSlice(s, vals)
    \/ \E j \in ArrIds : ShOpAssignArray(s, j)

\* C5: a live SharedArray points at the start of a block or is null, and a
\* step changes its pointer or length only by dropping the reference (null,
\* length 0: clear, claim, being moved from) or by assigning to it.
C5_SharedViewFixed ==
    [][\A s \in ShIds :
          sh'[s].live
              => /\ sh'[s].off = 0
                 /\ (sh[s].live /\ sh'[s] # sh[s])
                        => \/ sh'[s].ptr = Null /\ sh'[s].length = 0
                           \/ Assigned(s)]_vars

\* the live Arrays whose pointer is block p
Owners(p) == {i \in ArrIds : arr[i].live /\ arr[i].ptr = p}

\* C6: a heap allocation is referenced by at most one Array, and not by an
\* Array and a SharedArray at once; what a move, a conversion or a claim
\* took its block from is left with a null pointer and length 0.
C6_ExclusiveOwner ==
    /\ \A p \in Blocks :
           /\ Cardinality(Owners(p)) <= 1
           /\ Owners(p) # {} => Sharers(p) = 0
    /\ \A i \in ArrIds : arr[i].ptr = Null => arr[i].length = 0
    /\ \A s \in ShIds : sh[s].ptr = Null => sh[s].length = 0

\* an Array holds a block that a SharedArray held, and before it another
\* Array: the SharedArray is null and the other Array is alive without it
C6_Witness ==
    /\ res.op = "claim" /\ res.ok
    /\ \E i, j \in IntArrays, s \in ShPair :
           /\ i # j /\ arr[i].live /\ arr[j].live /\ sh[s].live
           /\ is_allocated(i, arr[i]) /\ arr[j].ptr = Null /\ sh[s].ptr = Null

\* C4: a copy has the pointer, length and use_count() of its source, so two
\* copies of one source have the same; instances with the same pointer
\* compare equal; and when one of them is cleared, each other one keeps its
\* pointer and length, its block stays allocated with the same elements,
\* and its use_count() is one less.
C4_CopiesShare ==
    [][\A s, t \in ShIds :
          /\ ShCtorCopy(s, t)
                 => /\ sh'[s].ptr = sh'[t].ptr /\ sh'[s].length = sh'[t].length
                    /\ use_count(sh'[s], heap') = use_count(sh'[t], heap')
          /\ (ShEquals(s, t) /\ sh[s].ptr = sh[t].ptr)
                 => (res'.val = 1 /\ heap' = heap)
          /\ (ShClear(s) /\ s # t /\ sh[t].live /\ sh[s].ptr # Null
                  /\ sh[t].ptr = sh[s].ptr)
                 => /\ sh'[t] = sh[t]
                    /\ heap'[sh[t].ptr].state = "live"
                    /\ heap'[sh[t].ptr].mem = heap[sh[t].ptr].mem
                    /\ Len(heap'[sh[t].ptr].mem) = sh[t].length
                    /\ use_count(sh'[t], heap') = use_count(sh[t], heap) - 1]_vars

\* one of three instances of a block has just been cleared and the other
\* two still share it
C4_Witness ==
    /\ res.op = "clear" /\ res.val = 3
    /\ \E s, t \in ShIds :
           /\ s # t /\ sh[s].live /\ sh[t].live
           /\ sh[s].ptr # Null /\ sh[s].ptr = sh[t].ptr
           /\ use_count(sh[s], heap) = 2

\* C14: a SharedArray constructed from an Array on the heap has the pointer
\* and length the Array had and use_count() 1, and the Array is left null and
\* empty; constructed from an Array on inline storage with length > 0, it
\* has a block allocated by the call, holding the elements of the Array in
\* order, with the same length and use_count() 1.
C14_SharedFromArray ==
    [][\A s \in ShIds, j \in IntArrays :
          (~sh[s].live /\ sh'[s].live /\ ShCtorArray(s, j))
              => /\ sh'[s].length = arr[j].length
                 /\ IF is_allocated(j, arr[j])
                    THEN /\ sh'[s].ptr = arr[j].ptr
                         /\ use_count(sh'[s], heap') = 1
                         /\ arr'[j].ptr = Null /\ arr'[j].length = 0
                    ELSE arr[j].length > 0
                         => /\ sh'[s].ptr \in Blocks
                            /\ heap[sh'[s].ptr].state = "free"
                            /\ heap'[sh'[s].ptr].state = "live"
                            /\ Take(heap'[sh'[s].ptr].mem, sh'[s].length)
                                   = Elems(arr[j], heap)
                            /\ use_count(sh'[s], heap') = 1]_vars

\* a SharedArray has just been made from an Array on inline storage, whose
\* elements it holds in a block of its own
C14_Witness ==
    /\ res.op = "from_array"
    /\ \E s \in ShIds, j \in IntArrays :
           /\ sh[s].live /\ sh[s].ptr # Null /\ arr[j].live
           /\ arr[j].ptr = Local /\ arr[j].length = 2
           /\ Take(heap[sh[s].ptr].mem, 2) = Elems(arr[j], heap)

-----------------------------------------------------------------------------
(* Claims about Array<int, Count> *)

\* C7: no allocation is released twice, and every allocation that has not
\* been released is held by an Array (or a SharedArray): whatever an Array
\* held is released when the Array is destroyed, assigned to, or grows.
C7_ReleasedOnceNoLeak ==
    \A p \in Blocks :
        /\ heap[p].state # "twice"
        /\ heap[p].state = "live" => (Owners(p) # {} \/ Sharers(p) > 0)

\* C8: an Array whose pointer is its inline storage has at most
\* inlineCapacity elements.
C8_InlineWithinCapacity ==
    \A i \in ArrIds :
        (arr[i].live /\ arr[i].ptr = Local) => arr[i].length <= CountOf(i)

Contents(i) == Elems(arr[i], heap)
ContentsNext(i) == Elems(arr'[i], heap')

\* C10: every push_back call that returns leaves the array holding its
\* previous elements followed by the pushed value, with length one more,
\* whatever the state of the array it is called on (inline, on the heap, or
\* about to move from one to the other); k calls therefore append k values
\* in order.
C10_PushBackAppends ==
    [][\A i \in IntArrays, v \in IntVals :
          (ArrayPushBack(i, v) /\ ~hung')
              => /\ arr'[i].length = arr[i].length + 1
                 /\ ContentsNext(i) = Append(Contents(i), v)]_vars

\* C11: pop_back(n) with n <= length returns, leaving the first length - n
\* elements and nothing else, and with n > length is rejected and changes
\* nothing; pop_back() on an array that is not empty returns its last
\* element and leaves the ones before it.
C11_PopBackChecked ==
    [][\A i \in IntArrays :
          /\ \A n \in 0..(MaxLen + 1) :
                 (res'.op = "pop_back_n" /\ ArrayPopBackN(i, n))
                     => IF n <= arr[i].length
                        THEN /\ res'.ok
                             /\ arr'[i].length = arr[i].length - n
                             /\ ContentsNext(i) = Take(Contents(i), arr[i].length - n)
                        ELSE ~res'.ok /\ arr' = arr /\ heap' = heap
          /\ (res'.op = "pop_back" /\ arr[i].length >= 1 /\ ArrayPopBack(i))
                 => /\ res'.ok
                    /\ res'.val = Contents(i)[arr[i].length]
                    /\ ContentsNext(i) = Take(Contents(i), arr[i].length - 1)]_vars

\* C12: remove(k) with k < length returns the element at k and leaves the
\* other elements in their order, one fewer; remove_swap_last(k) returns the
\* element at k and leaves the others, one fewer, with the former last
\* element at k when k was not the last index.
C12_RemoveKeepsOthers ==
    [][\A i \in IntArrays, k \in 0..(MaxLen - 1) :
          LET c == Contents(i)
              n == arr[i].length
          IN  /\ (res'.op = "remove" /\ ArrayRemove(i, k))
                     => /\ res'.val = c[k + 1]
                        /\ arr'[i].length = n - 1
                        /\ ContentsNext(i) = SubSeq(c, 1, k) \o SubSeq(c, k + 2, n)
              /\ (res'.op = "remove_swap_last" /\ ArrayRemoveSwapLast(i, k))
                     => /\ res'.val = c[k + 1]
                        /\ arr'[i].length = n - 1
                        /\ ContentsNext(i) =
                               IF k = n - 1 THEN Take(c, n - 1)
                               ELSE [Take(c, n - 1) EXCEPT ![k + 1] = c[n]]]_vars

\* an element with others before and after it has been removed
C12_Witness ==
    /\ res.op = "remove" /\ res.val = 2
    /\ \E i \in IntArrays : arr[i].live /\ Contents(i) = <<1, 1>>

\* the capacity get_buffer() reports for the array in slot i, in the state
\* and in the next state
Reported(i) == get_buffer(i, arr[i], heap)
ReportedNext(i) == get_buffer(i, arr'[i], heap')

\* C26: reserve(n) leaves the length and the elements as they are, and then
\* get_buffer() reports a capacity of at least n: the capacity it had, when
\* n <= N on an array that is not on the heap (whose pointer is then the
\* inline storage) or when the block already covers n; max(2N, 16)
\* elements, or n when that is more, on the first allocation; and the byte
\* capacity of the block doubled until it covers n otherwise.
C26_ReserveCapacity ==
    [][\A i \in IntArrays, n \in ReserveArgs :
          (res'.op = "reserve" /\ ArrayReserve(i, n) /\ ~hung')
              => LET onHeap == is_allocated(i, arr[i])
                     first == Max(2 * CountOf(i), 16)
                     bytes == heap[arr[i].ptr].bytes
                     bytesNext == heap'[arr'[i].ptr].bytes
                 IN  /\ arr'[i].length = arr[i].length
                     /\ ContentsNext(i) = Contents(i)
                     /\ ReportedNext(i) >= n
                     /\ IF ~onHeap /\ n <= CountOf(i)
                        THEN arr'[i].ptr = LocalPtr(i) /\ ReportedNext(i) = Reported(i)
                        ELSE IF onHeap /\ Reported(i) >= n
                        THEN arr'[i].ptr = arr[i].ptr /\ ReportedNext(i) = Reported(i)
                        ELSE IF ~onHeap
                        THEN ReportedNext(i) = (IF n > first THEN n ELSE first)
                        ELSE \E k \in 1..SizeBits :
                                 /\ bytesNext = bytes * Pow2(k)
                                 /\ bytesNext >= n * SizeOf(i)
                                 /\ k > 1 => bytes * Pow2(k - 1) < n * SizeOf(i)]_vars

\* C27: reserve(n) returns, whatever n is and whatever state the array is
\* in, and so do push_back, append and resize.
C27_ReserveReturns == ~hung

\* the sequence e without its element at the 0-based index k
Without(e, k) == [x \in 1..(Len(e) - 1) |-> IF x <= k THEN e[x] ELSE e[x + 1]]

\* the sequence e with its last element moved to the 0-based index k
SwappedOut(e, k) == [x \in 1..(Len(e) - 1) |-> IF x = k + 1 THEN e[Len(e)] ELSE e[x]]

\* C28: remove_first(item) and remove_first_swap_last(item) on an array
\* that does not hold item leave its length and its elements as they are
\* and touch no slot at an index >= length; when item is there they remove
\* its first occurrence and nothing else.
C28_RemoveFirst ==
    [][\A i \in IntArrays, item \in FindVals :
          LET e == Contents(i)
              k == Least({x \in 0..Len(e) : x = Len(e) \/ e[x + 1] = item})
          IN  /\ (res'.op = "remove_first" /\ ArrayRemoveFirst(i, item))
                     => IF k = Len(e)
                        THEN /\ arr'[i].length = arr[i].length /\ ContentsNext(i) = e
                             /\ \A t \in res'.touched : t < arr[i].length
                        ELSE ContentsNext(i) = Without(e, k)
              /\ (res'.op = "remove_first_swap_last" /\ ArrayRemoveFirstSwapLast(i, item))
                     => IF k = Len(e)
                        THEN /\ arr'[i].length = arr[i].length /\ ContentsNext(i) = e
                             /\ \A t \in res'.touched : t < arr[i].length
                        ELSE ContentsNext(i) = SwappedOut(e, k)]_vars

-----------------------------------------------------------------------------
(* Claims about Array<char, Count> *)

\* C13: in every state, a text Array whose pointer is not null has room for the code unit
\* at index length, and that code unit is 0.
C13_Terminated ==
    \A i \in TextArrays :
        (arr[i].live /\ arr[i].ptr # Null)
            => /\ arr[i].length < Capacity(i, arr[i], heap)
               /\ At(Buf(arr[i], heap), arr[i].length + 1) = 0

-----------------------------------------------------------------------------
(* Claims about Slice<T> *)

\* the bounds slice(first, last) requires of a view of n elements
SliceBounds(first, last, n) == first <= last /\ last <= n

\* slice(first, last) within its bounds returns the elements first .. last - 1
\* of a view
SliceRight ==
    (res.op = "slice" /\ SliceBounds(res.in.first, res.in.last, res.in.v.length))
        => /\ res.ok
           /\ res.val.length = res.in.last - res.in.first
           /\ \A k \in 0..(res.val.length - 1) :
                  ViewElems(res.val)[k + 1] = ViewElems(res.in.v)[res.in.first + k + 1]

\* C15, as stated: slice within its bounds returns that sub-view, and
\* outside them is rejected.
C15_SliceChecked ==
    /\ SliceRight
    /\ (res.op = "slice" /\ ~SliceBounds(res.in.first, res.in.last, res.in.v.length))
           => ~res.ok

\* C15, amended: outside its bounds it is rejected where SLICE_ASSERT is
\* compiled in.
C15_SliceCheckedByAssert ==
    /\ SliceRight
    /\ (res.op = "slice" /\ ~SliceBounds(res.in.first, res.in.last, res.in.v.length)
           /\ res.in.asserts)
           => ~res.ok

\* the middle element of a view of three has been sliced out
C15_Witness ==
    /\ res.op = "slice" /\ res.ok
    /\ res.in.v.length = 3 /\ res.in.first = 1 /\ res.in.last = 2
    /\ ViewElems(res.in.v) = <<1, 2, 1>> /\ ViewElems(res.val) = <<2>>

\* the offsets at which the sequence x occurs in the view v
Occurrences(v, x) ==
    {i \in 0..(v.length - Len(x)) : SubSeq(ViewElems(v), i + 1, i + Len(x)) = x}

\* C16: find_first returns the smallest and find_last the largest offset at
\* which the element or non-empty sequence occurs in the view, and both
\* return the length of the view when it occurs nowhere.
C16_FindRight ==
    (res.op = "find" /\ Len(res.in.s) > 0)
        => LET occ == Occurrences(res.in.v, res.in.s)
           IN  res.val = IF occ = {} THEN res.in.v.length
                         ELSE IF res.in.last THEN Greatest(occ) ELSE Least(occ)

\* C17, as stated: when what is searched for occurs nowhere in the view, the
\* get_left_at functions return an empty view and the get_right_at functions
\* return the view itself, whatever inclusive is.
C17_NotFoundLeftEmpty ==
    (res.op = "get_at" /\ Len(res.in.s) > 0 /\ Occurrences(res.in.v, res.in.s) = {})
        => IF res.in.left THEN res.val.length = 0
           ELSE res.val = res.in.v

\* C17, amended: when what is searched for occurs nowhere in the view, the
\* get_left_at functions return the view itself and the get_right_at
\* functions return the empty view at its end, whatever inclusive is.
C17_NotFoundLeftFull ==
    (res.op = "get_at" /\ Len(res.in.s) > 0 /\ Occurrences(res.in.v, res.in.s) = {})
        => IF res.in.left THEN res.val = res.in.v
           ELSE /\ res.val.length = 0
                /\ res.val.off = res.in.v.off + res.in.v.length

\* get_left_at_first has not found a sequence in a view of two elements
C17_Witness ==
    /\ res.op = "get_at" /\ res.in.left /\ res.in.seq /\ ~res.in.last
    /\ ViewElems(res.in.v) = <<1, 2>> /\ res.in.s = <<2, 1>>
    /\ res.val = res.in.v

\* C18: begins_with(s) returns whether s is no longer than the view and
\* equal to its first elements, and contains(x) returns whether
\* find_first(x) is not the length of the view.
C18_BeginsWithContains ==
    /\ res.op = "begins_with"
           => /\ res.ok
              /\ res.val = (/\ Len(res.in.s) <= res.in.v.length
                            /\ Take(ViewElems(res.in.v), Len(res.in.s)) = res.in.s)
    /\ res.op = "contains"
           => res.val = ((IF res.in.seq THEN find_first(res.in.v, res.in.s)
                          ELSE find_first_c(res.in.v, res.in.s[1])) # res.in.v.length)

\* C19: tokenise into an array stores the tokens that pop_token, called in
\* the same mode until the view is empty or the array is full, returns, in
\* that order, and leaves the view as those calls leave it.
C19_TokeniseIsPopToken ==
    res.op = "tokenise"
        => res.val = PopTokens(res.in.v, <<>>, res.in.room, res.in.delims, res.in.skip)

\* C20: tokenise with a callback calls it once per token, in order, with
\* the indices 0, 1, 2, ... and the token views (same start, same length)
\* that tokenise into a large enough array stores, and returns the number of
\* calls.
C20_CallbackTokens ==
    res.op = "tokenise_each"
        => LET stored == tokenise_into(res.in.v, res.in.v.length + 1, res.in.delims,
                                       res.in.skip).tokens
           IN  /\ Len(res.val.calls) = Len(stored)
               /\ \A k \in 1..Len(stored) :
                      /\ res.val.calls[k].index = k - 1
                      /\ res.val.calls[k].token = stored[k]
               /\ res.val.count = Len(res.val.calls)

-----------------------------------------------------------------------------
(* Claims about the transcoding functions and the text views *)

\* C21: a code point outside the surrogate range encoded as UTF-8 decodes to
\* itself, the decoder consumes the units the encoder wrote, and their number
\* is utf_seq_length: 1, 2, 3 or 4 below 0x80, 0x800, 0x10000 and from there
\* on; through UTF-32 the pair is the identity with one unit.
C21_Utf8RoundTrip ==
    (res.op = "utf" /\ res.in.w \in {8, 32})
        => /\ res.val.dec.c = res.in.c
           /\ res.val.dec.n = Len(res.val.units)
           /\ Len(res.val.units) = res.val.len
           /\ res.in.w = 32 => res.val.units = <<res.in.c>>
           /\ res.in.w = 8 =>
                  res.val.len = (IF res.in.c < 128 THEN 1
                                 ELSE IF res.in.c < 2048 THEN 2
                                 ELSE IF res.in.c < 65536 THEN 3 ELSE 4)

C21_Witness ==
    /\ res.op = "utf" /\ res.in.w = 8 /\ res.in.c = 1114111
    /\ res.val.dec = [c |-> 1114111, n |-> 4]

\* C22: a code point outside the surrogate range encoded as UTF-16 decodes
\* to itself: below 0x10000 through one unit, from 0x10000 on through a
\* leading and a trailing surrogate, of which the decoder consumes 2 units.
C22_Utf16RoundTrip ==
    (res.op = "utf" /\ res.in.w = 16)
        => /\ res.val.dec.c = res.in.c
           /\ res.val.dec.n = Len(res.val.units)
           /\ Len(res.val.units) = (IF res.in.c < 65536 THEN 1 ELSE 2)
           /\ res.in.c >= 65536 =>
                  /\ res.val.units[1] \in 55296..56319
                  /\ res.val.units[2] \in 56320..57343

\* the digits of the base, as the specification names them
ValidDigit(c, base) ==
    \/ c \in 48..57 /\ c - 48 < base
    \/ base = 16 /\ (c \in 97..102 \/ c \in 65..70)

\* the value of a valid digit
ValueOfDigit(c) == IF c \in 48..57 THEN c - 48 ELSE IF c \in 97..102 THEN c - 87 ELSE c - 55

RECURSIVE PositionalValue(_, _, _)
\* the positional value of the leading run of valid digits of t, after acc
PositionalValue(t, base, acc) ==
    IF t # <<>> /\ ValidDigit(Head(t), base)
    THEN PositionalValue(Tail(t), base, acc * base + ValueOfDigit(Head(t)))
    ELSE acc

\* what parse_int is to return for the text t
ParsedInt(t, detectBase, base) ==
    LET dollar == detectBase /\ Len(t) >= 1 /\ t[1] = 36
        zerox == detectBase /\ Len(t) >= 2 /\ t[1] = 48 /\ t[2] \in {120, 88}
        bin == detectBase /\ Len(t) >= 1 /\ t[1] \in {98, 66}
        b == IF dollar \/ zerox THEN 16 ELSE IF bin THEN 2 ELSE base
        rest == IF dollar THEN Tail(t) ELSE IF zerox THEN Tail(Tail(t))
                ELSE IF bin THEN Tail(t) ELSE t
    IN  IF b = 10 /\ rest # <<>> /\ Head(rest) = 45 THEN 0 - PositionalValue(Tail(rest), b, 0)
        ELSE IF b = 10 /\ rest # <<>> /\ Head(rest) = 43 THEN PositionalValue(Tail(rest), b, 0)
        ELSE PositionalValue(rest, b, 0)

\* C23: parse_int returns the positional value, in the selected base, of the
\* leading run of valid digits: with detectBase a leading '$' or "0x"/"0X"
\* selects base 16 and a leading 'b'/'B' base 2, the prefix skipped, and
\* otherwise the base asked for is used; base 10 takes one leading sign and
\* negates for '-'; base 16 takes its letters in either case.
C23_ParseIntValue ==
    (res.op = "parse_int" /\ ~res.val.default)
        => /\ res.ok
           /\ res.val.val = ParsedInt(ViewElems(res.in.v), res.in.detectBase, res.in.base)

C23_Witness ==
    /\ res.op = "parse_int" /\ res.in.detectBase /\ res.in.base = 10
    /\ ViewElems(res.in.v) = <<48, 120, 49, 70>> /\ res.val.val = 31

\* C29: parse_int and parse_float read only units at indices below the
\* length of the view, whatever the view holds.
C29_ParseReadsInside ==
    res.op \in {"parse_int", "parse_float"}
        => \A k \in res.val.reads : k < res.in.v.length

\* what url_encode is to write for one byte of the UTF-8 form of a text
UrlEscape(b) ==
    IF b \in 48..57 \/ b \in 65..90 \/ b \in 97..122 \/ b \in {95, 45, 46, 126} THEN <<b>>
    ELSE IF b = 32 THEN <<43>>
    ELSE LET h == b \div 16
             l == b % 16
         IN  <<37, (IF h < 10 THEN 48 + h ELSE 55 + h), (IF l < 10 THEN 48 + l ELSE 55 + l)>>

RECURSIVE UrlEscapes(_)
UrlEscapes(bytes) ==
    IF bytes = <<>> THEN <<>> ELSE UrlEscape(Head(bytes)) \o UrlEscapes(Tail(bytes))

\* C24: url_decode of url_encode(t) is t, in the destination width, for
\* every well-formed text t of any width; url_encode copies alphanumerics
\* and _ - . ~, writes a space as '+' and every other byte of the UTF-8 form
\* as %XX in upper-case hexadecimal digits.
C24_UrlRoundTrip ==
    res.op = "url"
        => /\ res.val.url = UrlEscapes(EncodeText(res.in.cps, 8))
           /\ res.val.text = EncodeText(res.in.cps, res.in.wd)

\* C25: on a well-formed text that is not empty, of units of any width,
\* back_char returns the last code point of the text, and pop_back_char
\* returns it and shortens the view by the units that encode it.
C25_BackChar ==
    (res.op = "back_char" /\ res.in.cps # <<>>)
        => LET last == res.in.cps[Len(res.in.cps)]
           IN  /\ res.ok
               /\ res.val.c = last
               /\ res.val.v.length =
                      (IF res.in.pop THEN res.in.v.length - SeqLength(last, res.in.w)
                       ELSE res.in.v.length)

\* C30: url_encode and url_decode on a text array store no unit, the
\* terminator included, at or beyond the capacity they asked reserve for
\* (3 * source length + 1 and source length + 1), whatever the width and
\* the content of the source, and leave the length below the capacity of
\* the storage.
C30_UrlWithinReserved ==
    (res.op \in {"url_encode", "url_decode"} /\ ~hung)
        => /\ res.written <= res.reserved
           /\ ~ub
           /\ \A i \in TextArrays :
                  arr[i].live => arr[i].length < Capacity(i, arr[i], heap)

=============================================================================
